---------------------------- MODULE Spec2Model ----------------------------
(***************************************************************************)
(* A model of the Grenadian election scraper (src/main.py).                *)
(*                                                                         *)
(* Texts are sequences of characters (one-element strings; EmDash and      *)
(* EnDash stand for U+2014 and U+2013).  Python values are records:        *)
(*   None            [none |-> TRUE]                                       *)
(*   an int n        [val |-> n]                                           *)
(*   a float h/100   [hundredths |-> h]   (the result of round(x, 2))      *)
(*   a str kept beside None   [str |-> text]                               *)
(*   a value returned         [ok |-> v]                                   *)
(*   a raised error           [exc |-> "ValueError"]                       *)
(*                                                                         *)
(* One run of the script is a state machine over pc.  The two extractors   *)
(* advance one table row per step, so that they can also be run on their   *)
(* own (SpecSummary, SpecConst, SpecGroups); the pure helpers are called   *)
(* through `call` (SpecText, SpecClean, SpecLocate); SpecRun is the whole  *)
(* run; SpecRender gives the records of parse_results_table to             *)
(* render_general of generate_html.py.                                     *)
(***************************************************************************)
EXTENDS Integers, Sequences, FiniteSets, TLC

VARIABLES
    call,                   \* a call of a pure helper: [fn, arg, ret]
    pc,                     \* where the run, or the extractor, stands
    soup,                   \* __main__: the page of its own GET, parsed for the constituencies
    scrape_soup,            \* scrape_election_results: its soup, parsed for the summary
    table,                  \* the table handed to the extractor
    headers,                \* the extractor's expanded header labels
    cols,                   \* the extractor's resolved columns
    row_i,                  \* the next row of the extractor's loop
    results,                \* parse_results_table: the records so far
    current_constituency,   \* parse_by_constituency_table
    constituencies,         \* parse_by_constituency_table: the dict, in key order
    ret,                    \* what the extractor returned or raised
    written,                \* the files written, in order
    log,                    \* the messages printed, in order
    gets,                   \* the HTTP GETs made, in order
    exit_status             \* None while running, then the exit status

parser_vars == <<table, headers, cols, row_i, results, current_constituency,
                 constituencies, ret>>

run_vars == <<soup, scrape_soup, written, log, gets, exit_status>>

vars == <<call, pc, parser_vars, run_vars>>

---------------------------------------------------------------------------
(* Python values *)

None == [none |-> TRUE]

ValueError == [exc |-> "ValueError"]

IntVal(n) == [val |-> n]

Float(h) == [hundredths |-> h]

IsNone(v) == "none" \in DOMAIN v

IsRaised(v) == "exc" \in DOMAIN v

---------------------------------------------------------------------------
(* Characters and the str methods and regular expressions the code uses *)

EmDash == "emdash"

EnDash == "endash"

Digits == <<"0", "1", "2", "3", "4", "5", "6", "7", "8", "9">>

\* the class \d of re (ASCII digits; the model's texts hold no other digits)
IsDigit(c) == \E i \in 1..Len(Digits) : Digits[i] = c

DigitVal(c) == (CHOOSE i \in 1..Len(Digits) : Digits[i] = c) - 1

\* the class [\d.] whose complement parse_float removes
IsDigitOrDot(c) == IsDigit(c) \/ c = "."

\* the class \s of re, and the characters str.strip() removes
IsSpace(c) == c \in {" ", "\n", "\t"}

RECURSIVE Pow10(_)
Pow10(k) == IF k = 0 THEN 1 ELSE 10 * Pow10(k - 1)

RECURSIVE Pow2(_)
Pow2(k) == IF k = 0 THEN 1 ELSE 2 * Pow2(k - 1)

\* the value of a non-empty string of digits, read left to right
RECURSIVE DecValue(_)
DecValue(s) ==
    IF s = <<>> THEN 0
    ELSE 10 * DecValue(SubSeq(s, 1, Len(s) - 1)) + DigitVal(s[Len(s)])

\* int(s) for a string of digits with an optional sign: a ValueError for
\* the empty string and for any other character
py_int(s) ==
    LET signed == s # <<>> /\ s[1] \in {"-", "+"}
        body   == IF signed THEN Tail(s) ELSE s
    IN  IF body = <<>> \/ \E i \in 1..Len(body) : ~IsDigit(body[i])
        THEN ValueError
        ELSE IntVal(IF signed /\ s[1] = "-" THEN 0 - DecValue(body) ELSE DecValue(body))

\* float(s) for a string of digits and dots: the decimal num/den, and a
\* ValueError unless s holds at most one dot and at least one digit
py_float(s) ==
    LET dots  == {i \in 1..Len(s) : s[i] = "."}
        digs  == SelectSeq(s, IsDigit)
        other == \E i \in 1..Len(s) : ~IsDigitOrDot(s[i])
    IN  IF other \/ Cardinality(dots) > 1 \/ digs = <<>>
        THEN ValueError
        ELSE LET frac == IF dots = {} THEN 0
                         ELSE Len(s) - (CHOOSE i \in dots : TRUE)
             IN  [num |-> DecValue(digs), den |-> Pow10(frac), places |-> frac]

\* round(x, 2) of the double nearest to num/den, in hundredths.  Python
\* rounds the double's exact binary value correctly, so a decimal that is
\* not half-way goes to its nearest neighbour; a decimal exactly half-way
\* goes to the even neighbour when the double holds it exactly (num/den is
\* a multiple of 2^-places) and otherwise to whichever side the double's
\* representation error falls on: both neighbours are possible outcomes.
py_round2(x) ==
    LET q     == (x.num * 100) \div x.den
        r     == (x.num * 100) % x.den
        exact == (x.num * Pow2(x.places)) % x.den = 0
    IN  IF 2 * r < x.den THEN {Float(q)}
        ELSE IF 2 * r > x.den THEN {Float(q + 1)}
        ELSE IF exact THEN {Float(IF q % 2 = 0 THEN q ELSE q + 1)}
        ELSE {Float(q), Float(q + 1)}

---------------------------------------------------------------------------
(* parse_int and parse_float *)

\* a parse_int that answers 0 when no digit is left
parse_int_zero(value) ==
    LET cleaned == SelectSeq(value, IsDigit)
    IN  IF cleaned # <<>> THEN py_int(cleaned) ELSE IntVal(0)

parse_int(value) ==
    LET cleaned == SelectSeq(value, IsDigit)
    IN  IF cleaned # <<>> THEN py_int(cleaned) ELSE None

\* a parse_float that cuts the decimal off after two places
parse_float_truncating(value) ==
    LET cleaned == SelectSeq(value, IsDigitOrDot)
        x       == py_float(cleaned)
    IN  IF IsRaised(x) THEN {None}
        ELSE {Float((x.num * 100) \div x.den)}

\* the set of values parse_float can return (one, except for a decimal
\* half-way between two hundredths: see py_round2)
parse_float(value) ==
    LET cleaned == SelectSeq(value, IsDigitOrDot)
        x       == py_float(cleaned)
    IN  IF IsRaised(x) THEN {None}
        ELSE py_round2(x)

---------------------------------------------------------------------------
(* str methods, and clean_text *)

UpperCase == <<"A", "B", "C", "D", "E", "F", "G", "H", "I", "J", "K", "L", "M",
               "N", "O", "P", "Q", "R", "S", "T", "U", "V", "W", "X", "Y", "Z">>

LowerCase == <<"a", "b", "c", "d", "e", "f", "g", "h", "i", "j", "k", "l", "m",
               "n", "o", "p", "q", "r", "s", "t", "u", "v", "w", "x", "y", "z">>

lower_char(c) ==
    IF \E i \in 1..Len(UpperCase) : UpperCase[i] = c
    THEN LowerCase[CHOOSE i \in 1..Len(UpperCase) : UpperCase[i] = c]
    ELSE c

\* the elements of t at the positions in keep, in order
KeepAt(t, keep) ==
    [k \in 1..Cardinality(keep) |->
        t[CHOOSE i \in keep : Cardinality({j \in keep : j <= i}) = k]]

\* str.lower()
lower(t) == [i \in 1..Len(t) |-> lower_char(t[i])]

\* str.strip()
strip(t) ==
    LET solid == {i \in 1..Len(t) : ~IsSpace(t[i])}
    IN  IF solid = {} THEN <<>>
        ELSE SubSeq(t, CHOOSE i \in solid : \A j \in solid : i <= j,
                       CHOOSE i \in solid : \A j \in solid : i >= j)

\* sub in t
Contains(sub, t) ==
    \E i \in 0..(Len(t) - Len(sub)) : SubSeq(t, i + 1, i + Len(sub)) = sub

\* str.isdigit()
isdigit(t) == t # <<>> /\ \A i \in 1..Len(t) : IsDigit(t[i])

\* t.replace(c, "") for a single character c
remove_char(t, c) == KeepAt(t, {i \in 1..Len(t) : t[i] # c})

\* re.sub(r"\[\d+\]", "", t): a match is a "[", one or more digits and a
\* "]"; no two matches overlap, so every match is removed
sub_footnotes(t) ==
    LET IsMatch(i, j) ==
            /\ t[i] = "[" /\ t[j] = "]" /\ j >= i + 2
            /\ \A k \in (i + 1)..(j - 1) : IsDigit(t[k])
        matched == {k \in 1..Len(t) :
                       \E i \in 1..k, j \in k..Len(t) : IsMatch(i, j)}
    IN  KeepAt(t, (1..Len(t)) \ matched)

\* re.sub(r"\s+", " ", t): every run of whitespace becomes one space
sub_spaces(t) ==
    LET spaced == [i \in 1..Len(t) |-> IF IsSpace(t[i]) THEN " " ELSE t[i]]
    IN  KeepAt(spaced, {i \in 1..Len(t) :
                           ~IsSpace(t[i]) \/ i = 1 \/ ~IsSpace(t[i - 1])})

\* a cleaning that strips the text before the substitutions only
clean_text_single_strip(text) == sub_spaces(sub_footnotes(strip(text)))

clean_text(text) == strip(sub_spaces(sub_footnotes(strip(text))))

---------------------------------------------------------------------------
(* The parsed page.  A document is [ids, tables]: the ids of its elements   *)
(* and its tables in document order; a table is [classes, rows]; a row is   *)
(* [cells, sep], sep being the text between its cells; a cell is            *)
(* [tag, text, colspan, rowspan].  An attribute is <<>> when the tag does   *)
(* not carry it and <<s>> when it carries the string s.  Tables are not     *)
(* nested and a cell holds text only.                                       *)

NoAttr == <<>>

Attr(s) == <<s>>

Cell(tag, text, colspan, rowspan) ==
    [tag |-> tag, text |-> text, colspan |-> colspan, rowspan |-> rowspan]

th(text) == Cell("th", text, NoAttr, NoAttr)

td(text) == Cell("td", text, NoAttr, NoAttr)

Row(cells) == [cells |-> cells, sep |-> <<>>]

IsTh(cell) == cell.tag = "th"

\* row.find_all("th")
find_all_th(row) == SelectSeq(row.cells, IsTh)

\* cell.get_text()
get_text(cell) == cell.text

\* cell.get_text(strip=True)
get_text_strip(cell) == strip(cell.text)

\* row.get_text(): the cells' texts and the text between them
RECURSIVE join_texts(_, _)
join_texts(cells, sep) ==
    IF cells = <<>> THEN <<>>
    ELSE IF Len(cells) = 1 THEN get_text(cells[1])
    ELSE get_text(cells[1]) \o sep \o join_texts(Tail(cells), sep)

row_get_text(row) == join_texts(row.cells, row.sep)

\* [th.get_text(strip=True).lower() for th in row.find_all("th")]
RECURSIVE header_texts_of(_)
header_texts_of(cells) ==
    IF cells = <<>> THEN <<>>
    ELSE <<lower(get_text_strip(Head(cells)))>> \o header_texts_of(Tail(cells))

header_texts(row) == header_texts_of(find_all_th(row))

\* any(name in h for h in headers)
AnyContains(name, hs) == \E i \in 1..Len(hs) : Contains(name, hs[i])

K_party == <<"p", "a", "r", "t", "y">>

K_votes == <<"v", "o", "t", "e", "s">>

K_seats == <<"s", "e", "a", "t", "s">>

K_constituency == <<"c", "o", "n", "s", "t", "i", "t", "u", "e", "n", "c", "y">>

K_electorate == <<"e", "l", "e", "c", "t", "o", "r", "a", "t", "e">>

K_turnout == <<"t", "u", "r", "n", "o", "u", "t">>

K_political == <<"p", "o", "l", "i", "t", "i", "c", "a", "l">>

K_candidate == <<"c", "a", "n", "d", "i", "d", "a", "t", "e">>

K_pct == <<"%">>

K_percentage == <<"p", "e", "r", "c", "e", "n", "t", "a", "g", "e">>

K_plus == <<"+">>

K_change == <<"c", "h", "a", "n", "g", "e">>

K_swing == <<"s", "w", "i", "n", "g">>

K_total == <<"t", "o", "t", "a", "l">>

K_source == <<"s", "o", "u", "r", "c", "e">>

K_valid == <<"v", "a", "l", "i", "d">>

K_valid_votes == <<"v", "a", "l", "i", "d", " ", "v", "o", "t", "e", "s">>

K_invalid == <<"i", "n", "v", "a", "l", "i", "d">>

K_registered == <<"r", "e", "g", "i", "s", "t", "e", "r", "e", "d">>

K_blank == <<"b", "l", "a", "n", "k">>

---------------------------------------------------------------------------
(* The table locator *)

\* the row test of is_results_table, with the three keywords looked for in
\* one and the same header cell
results_row_one_cell(row) ==
    \E i \in 1..Len(header_texts(row)) :
        /\ Contains(K_party, header_texts(row)[i])
        /\ Contains(K_votes, header_texts(row)[i])
        /\ Contains(K_seats, header_texts(row)[i])

\* the body of the loop of is_results_table
results_row(row) ==
    LET hs   == header_texts(row)
        has_party == AnyContains(K_party, hs)
        has_votes == AnyContains(K_votes, hs)
        has_seats == AnyContains(K_seats, hs)
    IN  has_party /\ has_votes /\ has_seats

is_results_table(tbl) ==
    \E r \in 1..Len(tbl.rows) : results_row(tbl.rows[r])

is_constituency_table(tbl) ==
    \E r \in 1..Len(tbl.rows) :
        AnyContains(K_constituency, header_texts(tbl.rows[r]))

\* soup.find_all("table", class_="wikitable")
RECURSIVE find_all_wikitable(_)
find_all_wikitable(tables) ==
    IF tables = <<>> THEN <<>>
    ELSE IF "wikitable" \in Head(tables).classes
         THEN <<Head(tables)>> \o find_all_wikitable(Tail(tables))
         ELSE find_all_wikitable(Tail(tables))

\* a find_results_table that looks at every table of the page
find_results_table_any_class(doc) ==
    LET tbls == doc.tables
        hits == {i \in 1..Len(tbls) : is_results_table(tbls[i])}
    IN  IF hits = {} THEN None
        ELSE tbls[CHOOSE i \in hits : \A j \in hits : i <= j]

find_results_table(doc) ==
    LET tbls == find_all_wikitable(doc.tables)
        hits == {i \in 1..Len(tbls) : is_results_table(tbls[i])}
    IN  IF hits = {} THEN None
        ELSE tbls[CHOOSE i \in hits : \A j \in hits : i <= j]

\* a find_constituency_table that does not ask for the anchor
find_constituency_table_no_anchor(doc) ==
    LET tbls == find_all_wikitable(doc.tables)
        hits == {i \in 1..Len(tbls) : is_constituency_table(tbls[i])}
    IN  IF hits = {} THEN None
        ELSE tbls[CHOOSE i \in hits : \A j \in hits : i <= j]

find_constituency_table(doc) ==
    IF "By_constituency" \notin doc.ids THEN None
    ELSE LET tbls == find_all_wikitable(doc.tables)
             hits == {i \in 1..Len(tbls) : is_constituency_table(tbls[i])}
         IN  IF hits = {} THEN None
             ELSE tbls[CHOOSE i \in hits : \A j \in hits : i <= j]

---------------------------------------------------------------------------
(* Header expansion and column resolution, shared by the two extractors *)

Ok(v) == [ok |-> v]

\* int(th.get("colspan", 1)): 1 without the attribute, else int() of its
\* string, surrounding whitespace ignored
colspan_of(cell) ==
    IF cell.colspan = NoAttr THEN IntVal(1) ELSE py_int(strip(cell.colspan[1]))

\* for _ in range(span): headers.append(text)
RECURSIVE repeat_text(_, _)
repeat_text(text, span) ==
    IF span <= 0 THEN <<>> ELSE <<text>> \o repeat_text(text, span - 1)

\* an expansion that gives every header cell one slot, whatever its colspan
RECURSIVE expand_headers_no_span(_)
expand_headers_no_span(ths) ==
    IF ths = <<>> THEN Ok(<<>>)
    ELSE LET text == lower(clean_text(get_text(Head(ths))))
             span == colspan_of(Head(ths))
             rest == expand_headers_no_span(Tail(ths))
         IN  IF IsRaised(span) \/ IsRaised(rest) THEN ValueError
             ELSE Ok(<<text>> \o rest.ok)

\* "Build flat headers expanding colspan": Ok(headers), or the ValueError
\* that int() raises on a colspan that is no integer
RECURSIVE expand_headers(_)
expand_headers(ths) ==
    IF ths = <<>> THEN Ok(<<>>)
    ELSE LET text == lower(clean_text(get_text(Head(ths))))
             span == colspan_of(Head(ths))
             rest == expand_headers(Tail(ths))
         IN  IF IsRaised(span) \/ IsRaised(rest) THEN ValueError
             ELSE Ok(repeat_text(text, span.val) \o rest.ok)

MinOf(S) == CHOOSE i \in S : \A j \in S : i <= j

\* col_idx(*names): the leftmost header holding the first of the names that
\* any header holds, counted from 0, or None
col_idx(names, hs) ==
    LET hits(n) == {i \in 1..Len(hs) : Contains(names[n], hs[i])}
        found   == {n \in 1..Len(names) : hits(n) # {}}
    IN  IF found = {} THEN None ELSE IntVal(MinOf(hits(MinOf(found))) - 1)

\* [i for i, h in enumerate(headers) if h.strip() in wanted], counted from 0
RECURSIVE pct_indices_from(_, _, _)
pct_indices_from(hs, wanted, i) ==
    IF i > Len(hs) THEN <<>>
    ELSE IF strip(hs[i]) \in wanted
         THEN <<i - 1>> \o pct_indices_from(hs, wanted, i + 1)
         ELSE pct_indices_from(hs, wanted, i + 1)

\* the first row, counted from 1, one of whose th texts holds the keyword
\* (0: none)
find_header_row(rows, keyword) ==
    LET hits == {i \in 1..Len(rows) : AnyContains(keyword, header_texts(rows[i]))}
    IN  IF hits = {} THEN 0 ELSE MinOf(hits)

\* any(kw in row_text for kw in keywords)
is_footer(row, keywords) ==
    LET row_text == lower(clean_text(row_get_text(row)))
    IN  \E kw \in keywords : Contains(kw, row_text)

---------------------------------------------------------------------------
(* parse_results_table *)

SummaryFooter == {K_total, K_source, K_valid, K_invalid, K_registered, K_blank}

summary_cols(hs) ==
    LET pct_indices == pct_indices_from(hs, {K_pct}, 1)
    IN  [party  |-> col_idx(<<K_party>>, hs),
         votes  |-> col_idx(<<K_votes>>, hs),
         seats  |-> col_idx(<<K_seats>>, hs),
         pct    |-> IF pct_indices # <<>> THEN IntVal(pct_indices[1]) ELSE None,
         change |-> col_idx(<<K_plus, K_change, K_swing>>, hs)]

\* get(idx) of parse_results_table
summary_get(cells, idx) ==
    IF ~IsNone(idx) /\ idx.val < Len(cells)
    THEN clean_text(get_text(cells[idx.val + 1]))
    ELSE <<>>

\* the party text of a row that is never looked for in the next column
summary_party_no_fallback(cells, c) == summary_get(cells, c.party)

\* the party text of a row: the party column, or the next one when that
\* cell is empty
summary_party(cells, c) ==
    LET party == summary_get(cells, c.party)
    IN  IF party = <<>> /\ ~IsNone(c.party)
        THEN summary_get(cells, IntVal(c.party.val + 1))
        ELSE party

Skip == [skip |-> TRUE]

IsSkip(o) == "skip" \in DOMAIN o

\* a loop body that drops a row when either its party or its votes is empty
summary_row_drop_either(row, c) ==
    LET cells == row.cells
        party == summary_party(cells, c)
        votes == summary_get(cells, c.votes)
    IN  IF cells = <<>> \/ is_footer(row, SummaryFooter) \/ party = <<>> \/ votes = <<>>
        THEN {Skip}
        ELSE {[party      |-> party,
               votes      |-> parse_int(votes),
               percentage |-> p,
               seats      |-> parse_int(summary_get(cells, c.seats)),
               change     |-> summary_get(cells, c.change)] :
                  p \in parse_float(summary_get(cells, c.pct))}

\* one turn of the loop over the data rows: Skip, or the record appended
\* (a set, for the outcomes of parse_float)
summary_row(row, c) ==
    LET cells == row.cells
        party == summary_party(cells, c)
        votes == summary_get(cells, c.votes)
    IN  IF cells = <<>> THEN {Skip}
        ELSE IF is_footer(row, SummaryFooter) THEN {Skip}
        ELSE IF party = <<>> /\ votes = <<>> THEN {Skip}
        ELSE {[party      |-> party,
               votes      |-> parse_int(votes),
               percentage |-> p,
               seats      |-> parse_int(summary_get(cells, c.seats)),
               change     |-> summary_get(cells, c.change)] :
                  p \in parse_float(summary_get(cells, c.pct))}

---------------------------------------------------------------------------
(* parse_by_constituency_table *)

ConstFooter == {K_total, K_source, K_valid_votes, K_invalid, K_registered}

Str(text) == [str |-> text]

const_cols(hs) ==
    LET pct_indices == pct_indices_from(hs, {K_pct, K_percentage}, 1)
    IN  [const       |-> col_idx(<<K_constituency>>, hs),
         elect       |-> col_idx(<<K_electorate>>, hs),
         turnout     |-> col_idx(<<K_turnout>>, hs),
         party       |-> col_idx(<<K_party, K_political>>, hs),
         candidate   |-> col_idx(<<K_candidate>>, hs),
         votes       |-> col_idx(<<K_votes>>, hs),
         turnout_pct |-> IF Len(pct_indices) >= 1 THEN IntVal(pct_indices[1]) ELSE None,
         pct         |-> IF Len(pct_indices) >= 2 THEN IntVal(pct_indices[2])
                         ELSE IF pct_indices # <<>> THEN IntVal(pct_indices[1])
                         ELSE None]

\* is_new: the first cell carries a non-empty rowspan, or the constituency
\* column is column 0 and the first cell's text is neither empty nor a number
is_new_group(cells, c) ==
    LET first_cell      == cells[1]
        first_cell_text == clean_text(get_text(first_cell))
    IN  \/ (first_cell.rowspan # NoAttr /\ first_cell.rowspan[1] # <<>>)
        \/ /\ c.const = IntVal(0)
           /\ first_cell_text # <<>>
           /\ ~isdigit(remove_char(remove_char(first_cell_text, ","), "."))

\* get(idx) of parse_by_constituency_table
const_get(data_cells, idx) ==
    IF IsNone(idx) THEN <<>>
    ELSE LET adjusted == idx.val - 1
         IN  IF 0 <= adjusted /\ adjusted < Len(data_cells)
             THEN clean_text(get_text(data_cells[adjusted + 1]))
             ELSE <<>>

\* a lookup that never finds the name
entry_index_never(name, dict) == 0

\* current_constituency in constituencies: the place of the entry, 0 if none
entry_index(name, dict) ==
    LET hits == {i \in 1..Len(dict) :
                     dict[i].constituency = name}
    IN  IF hits = {} THEN 0 ELSE MinOf(hits)

\* constituencies[name]["candidates"].append(cand), the entry made first
\* when the name is new (a dict keeps the order in which keys were added)
add_candidate(dict, name, meta, cand) ==
    LET at == entry_index(name, dict)
    IN  IF at = 0
        THEN Append(dict,
                    [constituency |-> name,
                     electorate   |-> meta.electorate,
                     turnout      |-> meta.turnout,
                     turnout_pct  |-> meta.turnout_pct,
                     candidates   |-> <<cand>>])
        ELSE [dict EXCEPT ![at].candidates = Append(@, cand)]

\* one turn of the loop over the data rows, from the state
\* st = [current, constituencies]: the set of states it can leave (a set,
\* for the outcomes of parse_float)
const_row(row, c, st) ==
    LET cells == row.cells
    IN  IF cells = <<>> THEN {st}
        ELSE IF is_footer(row, ConstFooter) THEN {st}
        ELSE
        LET first_cell_text == clean_text(get_text(cells[1]))
            is_new     == is_new_group(cells, c)
            current    == IF is_new /\ first_cell_text # <<>>
                          THEN Str(first_cell_text) ELSE st.current
            data_cells == IF is_new THEN Tail(cells) ELSE cells
            electorate == IF is_new THEN const_get(data_cells, c.elect) ELSE <<>>
            turnout    == IF is_new THEN const_get(data_cells, c.turnout) ELSE <<>>
            t_pct      == IF is_new THEN const_get(data_cells, c.turnout_pct) ELSE <<>>
            party0     == const_get(data_cells, c.party)
            party      == IF party0 = <<>> /\ ~IsNone(c.party)
                          THEN const_get(data_cells, IntVal(c.party.val + 1))
                          ELSE party0
            candidate  == const_get(data_cells, c.candidate)
            votes_str  == const_get(data_cells, c.votes)
            pct_str    == const_get(data_cells, c.pct)
        IN  IF IsNone(current) THEN {st}
            ELSE IF candidate = <<>> /\ votes_str = <<>>
                 THEN {[st EXCEPT !.current = current]}
            ELSE {[current        |-> current,
                   constituencies |->
                       add_candidate(st.constituencies, current.str,
                                     [electorate  |-> parse_int(electorate),
                                      turnout     |-> parse_int(turnout),
                                      turnout_pct |-> tp],
                                     [candidate  |-> candidate,
                                      party      |-> party,
                                      votes      |-> parse_int(votes_str),
                                      percentage |-> p])] :
                      tp \in parse_float(t_pct), p \in parse_float(pct_str)}

HasVotes(cand) == ~IsNone(cand.votes)

\* sum(c["votes"] for c in candidates if c["votes"] is not None), with the
\* sum ended at the first candidate whose votes are None
RECURSIVE sum_votes_until_none(_)
sum_votes_until_none(candidates) ==
    IF candidates = <<>> \/ ~HasVotes(Head(candidates)) THEN 0
    ELSE Head(candidates).votes.val + sum_votes_until_none(Tail(candidates))

\* sum(c["votes"] for c in candidates if c["votes"] is not None)
RECURSIVE sum_votes(_)
sum_votes(candidates) ==
    IF candidates = <<>> THEN 0
    ELSE (IF HasVotes(Head(candidates)) THEN Head(candidates).votes.val ELSE 0)
         + sum_votes(Tail(candidates))

\* a max that lets a later candidate with equal votes take the place
RECURSIVE max_votes_last(_, _)
max_votes_last(best, rest) ==
    IF rest = <<>> THEN best
    ELSE max_votes_last(IF Head(rest).votes.val >= best.votes.val
                        THEN Head(rest) ELSE best,
                        Tail(rest))

\* max(..., key=lambda c: c["votes"]): the running maximum is replaced
\* only by a strictly greater key, so the first of equal candidates stays
RECURSIVE max_votes(_, _)
max_votes(best, rest) ==
    IF rest = <<>> THEN best
    ELSE max_votes(IF Head(rest).votes.val > best.votes.val
                   THEN Head(rest) ELSE best,
                   Tail(rest))

\* max((c for c in candidates if c["votes"] is not None), ..., default=None)
winner_of(candidates) ==
    LET known == SelectSeq(candidates, HasVotes)
    IN  IF known = <<>> THEN None ELSE max_votes(Head(known), Tail(known))

\* one turn of the loop that builds the result
const_result_entry(data) ==
    LET candidates == data.candidates
        winner     == winner_of(candidates)
    IN  [constituency |-> data.constituency,
         electorate   |-> data.electorate,
         turnout      |-> data.turnout,
         turnout_pct  |-> data.turnout_pct,
         total_votes  |-> sum_votes(candidates),
         winner       |-> [candidate |-> IF ~IsNone(winner) THEN Str(winner.candidate) ELSE None,
                           party     |-> IF ~IsNone(winner) THEN Str(winner.party) ELSE None,
                           votes     |-> IF ~IsNone(winner) THEN winner.votes ELSE None],
         candidates   |-> candidates]

RECURSIVE const_result(_)
const_result(dict) ==
    IF dict = <<>> THEN <<>>
    ELSE <<const_result_entry(Head(dict))>>
         \o const_result(Tail(dict))

---------------------------------------------------------------------------
(* parse_by_constituency_table as one function of the table *)

\* the loop over the data rows from row i on: the states it can end in
RECURSIVE const_rows_from(_, _, _, _)
const_rows_from(rows, i, c, st) ==
    IF i > Len(rows) THEN {st}
    ELSE UNION {const_rows_from(rows, i + 1, c, nxt) : nxt \in const_row(rows[i], c, st)}

\* what a call can return: Ok(list), or the ValueError of a colspan that is
\* no integer
parse_by_constituency_table(tbl) ==
    LET rows == tbl.rows
        h    == find_header_row(rows, K_constituency)
    IN  IF rows = <<>> \/ h = 0 THEN {Ok(<<>>)}
        ELSE LET expanded == expand_headers(find_all_th(rows[h]))
             IN  IF IsRaised(expanded) THEN {expanded}
                 ELSE {Ok(const_result(st.constituencies)) :
                          st \in const_rows_from(rows, h + 1, const_cols(expanded.ok),
                                                 [current        |-> None,
                                                  constituencies |-> <<>>])}

---------------------------------------------------------------------------
(* The extractors as steps *)

\* parse_results_table up to the loop over the data rows
ResultsBegin ==
    /\ pc = "parse_results_table"
    /\ LET rows == table.rows
           h    == find_header_row(rows, K_votes)
       IN  IF rows = <<>> \/ h = 0
           THEN /\ pc' = "results_returned"
                /\ ret' = Ok(<<>>)
                /\ UNCHANGED <<headers, cols, row_i, results>>
           ELSE LET expanded == expand_headers(find_all_th(rows[h]))
                IN  IF IsRaised(expanded)
                    THEN /\ pc' = "results_returned"
                         /\ ret' = expanded
                         /\ UNCHANGED <<headers, cols, row_i, results>>
                    ELSE /\ pc' = "results_rows"
                         /\ headers' = expanded.ok
                         /\ cols' = summary_cols(expanded.ok)
                         /\ row_i' = h + 1
                         /\ results' = <<>>
                         /\ ret' = ret
    /\ UNCHANGED <<call, table, current_constituency, constituencies, run_vars>>

\* one data row of parse_results_table
ResultsRow ==
    /\ pc = "results_rows"
    /\ row_i <= Len(table.rows)
    /\ \E o \in summary_row(table.rows[row_i], cols) :
           results' = IF IsSkip(o) THEN results ELSE Append(results, o)
    /\ row_i' = row_i + 1
    /\ UNCHANGED <<call, pc, table, headers, cols, current_constituency,
                   constituencies, ret, run_vars>>

\* return results
ResultsReturn ==
    /\ pc = "results_rows"
    /\ row_i > Len(table.rows)
    /\ ret' = Ok(results)
    /\ pc' = "results_returned"
    /\ UNCHANGED <<call, table, headers, cols, row_i, results,
                   current_constituency, constituencies, run_vars>>

\* parse_by_constituency_table up to the loop over the data rows
ConstBegin ==
    /\ pc = "parse_by_constituency_table"
    /\ LET rows == table.rows
           h    == find_header_row(rows, K_constituency)
       IN  IF rows = <<>> \/ h = 0
           THEN /\ pc' = "constituency_returned"
                /\ ret' = Ok(<<>>)
                /\ UNCHANGED <<headers, cols, row_i, current_constituency,
                               constituencies>>
           ELSE LET expanded == expand_headers(find_all_th(rows[h]))
                IN  IF IsRaised(expanded)
                    THEN /\ pc' = "constituency_returned"
                         /\ ret' = expanded
                         /\ UNCHANGED <<headers, cols, row_i,
                                        current_constituency, constituencies>>
                    ELSE /\ pc' = "constituency_rows"
                         /\ headers' = expanded.ok
                         /\ cols' = const_cols(expanded.ok)
                         /\ row_i' = h + 1
                         /\ current_constituency' = None
                         /\ constituencies' = <<>>
                         /\ ret' = ret
    /\ UNCHANGED <<call, table, results, run_vars>>

\* one data row of parse_by_constituency_table
ConstRow ==
    /\ pc = "constituency_rows"
    /\ row_i <= Len(table.rows)
    /\ \E st \in const_row(table.rows[row_i], cols,
                           [current        |-> current_constituency,
                            constituencies |-> constituencies]) :
           /\ current_constituency' = st.current
           /\ constituencies' = st.constituencies
    /\ row_i' = row_i + 1
    /\ UNCHANGED <<call, pc, table, headers, cols, results, ret, run_vars>>

\* the loop that builds the result, and return result
ConstFinish ==
    /\ pc = "constituency_rows"
    /\ row_i > Len(table.rows)
    /\ ret' = Ok(const_result(constituencies))
    /\ pc' = "constituency_returned"
    /\ UNCHANGED <<call, table, headers, cols, row_i, results,
                   current_constituency, constituencies, run_vars>>

---------------------------------------------------------------------------
(* One run of the scraper for a year: scrape_election_results and __main__ *)

\* what requests.get can do: raise, or return a response
RequestExceptions == {"ConnectionError", "Timeout", "TooManyRedirects"}

Raises(e) == [exc |-> e]

Response(status_code, text) == [status_code |-> status_code, text |-> text]

\* resp.ok
ok(resp) == resp.status_code < 400

Stderr(text, with_url) == [stream |-> "stderr", text |-> text, url |-> with_url]

\* what is kept of a GET: the exception, or the status of the response
Outcome(get) ==
    IF "exc" \in DOMAIN get THEN get ELSE [status_code |-> get.status_code]

Stdout(text) == [stream |-> "stdout", text |-> text, url |-> FALSE]

SummaryFile == "election_general.json"

ConstituencyFile == "election_constituency.json"

\* sys.exit(1) after a message on stderr
ExitWithError(message) ==
    /\ log' = Append(log, message)
    /\ exit_status' = IntVal(1)
    /\ pc' = "exited"

\* an exception nothing catches: the interpreter prints the traceback and
\* exits with status 1
Uncaught(e) == ExitWithError(Stderr("Traceback", FALSE))

\* print(f"Scraping {year} ..."), then the call of scrape_election_results
Main ==
    /\ pc = "main"
    /\ log' = Append(log, Stdout("Scraping"))
    /\ pc' = "scrape_election_results"
    /\ UNCHANGED <<call, parser_vars, soup, scrape_soup, written, gets, exit_status>>

\* scrape_election_results from requests.get to BeautifulSoup(resp.text)
\* (get is what requests.get does this time)
Fetch(get) ==
    /\ pc = "scrape_election_results"
    /\ gets' = Append(gets, Outcome(get))
    /\ IF "exc" \in DOMAIN get
       THEN /\ IF get.exc = "ConnectionError"
               THEN ExitWithError(Stderr("Could not connect to Wikipedia", FALSE))
               ELSE IF get.exc = "Timeout"
               THEN ExitWithError(Stderr("Request timed out", FALSE))
               ELSE Uncaught(get.exc)
            /\ UNCHANGED scrape_soup
       ELSE IF get.status_code = 404
       THEN /\ ExitWithError(Stderr("No Wikipedia article found", TRUE))
            /\ UNCHANGED scrape_soup
       ELSE IF ~ok(get)
       THEN /\ ExitWithError(Stderr("Wikipedia returned HTTP", TRUE))
            /\ UNCHANGED scrape_soup
       ELSE /\ scrape_soup' = get.text
            /\ pc' = "find_results_table"
            /\ UNCHANGED <<log, exit_status>>
    /\ UNCHANGED <<call, parser_vars, soup, written>>

\* table = find_results_table(soup), and the exit when there is none
FindResults ==
    /\ pc = "find_results_table"
    /\ table' = find_results_table(scrape_soup)
    /\ IF IsNone(table')
       THEN ExitWithError(Stderr("Could not find a by-constituency table", TRUE))
       ELSE /\ pc' = "parse_results_table"
            /\ UNCHANGED <<log, exit_status>>
    /\ UNCHANGED <<call, headers, cols, row_i, results, current_constituency,
                   constituencies, ret, soup, scrape_soup, written, gets>>

\* back from parse_results_table: the exit when no row was parsed, else the
\* return of the data to __main__
CheckResults ==
    /\ pc = "results_returned"
    /\ IF IsRaised(ret) THEN Uncaught(ret.exc)
       ELSE IF ret.ok = <<>>
       THEN ExitWithError(Stderr("could not parse any rows", TRUE))
       ELSE /\ pc' = "write_summary"
            /\ UNCHANGED <<log, exit_status>>
    /\ UNCHANGED <<call, parser_vars, soup, scrape_soup, written, gets>>

\* json.dump(data, f) into election_general.json and the report of it
WriteSummary ==
    /\ pc = "write_summary"
    /\ written' = Append(written, [file |-> SummaryFile, data |-> ret.ok])
    /\ log' = Append(log, Stdout("Results saved"))
    /\ pc' = "fetch_constituency"
    /\ UNCHANGED <<call, parser_vars, soup, scrape_soup, gets, exit_status>>

\* soup = BeautifulSoup(requests.get(...).text): no except, no look at the
\* status
FetchConstituency(get) ==
    /\ pc = "fetch_constituency"
    /\ gets' = Append(gets, Outcome(get))
    /\ IF "exc" \in DOMAIN get
       THEN /\ Uncaught(get.exc)
            /\ UNCHANGED soup
       ELSE /\ soup' = get.text
            /\ pc' = "find_constituency_table"
            /\ UNCHANGED <<log, exit_status>>
    /\ UNCHANGED <<call, parser_vars, scrape_soup, written>>

\* const_table = find_constituency_table(soup), and the else branch
FindConstituency ==
    /\ pc = "find_constituency_table"
    /\ table' = find_constituency_table(soup)
    /\ IF IsNone(table')
       THEN /\ log' = Append(log, Stdout("No #By_constituency section found"))
            /\ exit_status' = IntVal(0)
            /\ pc' = "exited"
       ELSE /\ pc' = "parse_by_constituency_table"
            /\ UNCHANGED <<log, exit_status>>
    /\ UNCHANGED <<call, headers, cols, row_i, results, current_constituency,
                   constituencies, ret, soup, scrape_soup, written, gets>>

\* back from parse_by_constituency_table: the file when there is a group,
\* and the end of the script
WriteConstituency ==
    /\ pc = "constituency_returned"
    /\ IF IsRaised(ret)
       THEN /\ Uncaught(ret.exc)
            /\ UNCHANGED written
       ELSE IF ret.ok = <<>>
       THEN /\ exit_status' = IntVal(0)
            /\ pc' = "exited"
            /\ UNCHANGED <<log, written>>
       ELSE /\ written' = Append(written, [file |-> ConstituencyFile, data |-> ret.ok])
            /\ log' = Append(log, Stdout("Constituency data saved"))
            /\ exit_status' = IntVal(0)
            /\ pc' = "exited"
    /\ UNCHANGED <<call, parser_vars, soup, scrape_soup, gets>>

---------------------------------------------------------------------------
(* render_general (generate_html.py, and the same lines of convert-html.py) *)

ZeroDivisionError == [exc |-> "ZeroDivisionError"]

\* r.get("votes") or 0
votes_or_zero(r) == IF IsNone(r.votes) THEN 0 ELSE r.votes.val

\* max((r.get("votes") or 0 for r in results), default=1)
render_max_votes(records) ==
    IF records = <<>> THEN 1
    ELSE LET all == {votes_or_zero(records[i]) : i \in 1..Len(records)}
         IN  CHOOSE m \in all : \A v \in all : v <= m

\* round((votes / max_votes) * 100, 1), in tenths, for a divisor above 0;
\* at a decimal half-way point the double decides the side: both neighbours
bar_w(votes, most) ==
    LET q == (votes * 1000) \div most
        r == (votes * 1000) % most
    IN  IF 2 * r < most THEN {q}
        ELSE IF 2 * r > most THEN {q + 1}
        ELSE {q, q + 1}

\* the bar widths of the rows, one choice of each
RECURSIVE bar_widths(_, _)
bar_widths(records, most) ==
    IF records = <<>> THEN {<<>>}
    ELSE {<<w>> \o rest : w \in bar_w(votes_or_zero(Head(records)), most),
                          rest \in bar_widths(Tail(records), most)}

\* render_general: the bar widths of the table it returns, in row order
\* (none for "No data available"), or the ZeroDivisionError of
\* votes / max_votes
render_general(records) ==
    IF records = <<>> THEN {Ok(<<>>)}
    ELSE LET most == render_max_votes(records)
         IN  IF most = 0 THEN {ZeroDivisionError}
             ELSE {Ok(widths) : widths \in bar_widths(records, most)}

---------------------------------------------------------------------------
(* Initial values of the variables a specification does not use *)

CallIdle == call = [fn |-> "none", arg |-> <<>>, ret |-> None]

ParserIdle ==
    /\ table = None
    /\ headers = <<>>
    /\ cols = None
    /\ row_i = 0
    /\ results = <<>>
    /\ current_constituency = None
    /\ constituencies = <<>>
    /\ ret = None

RunIdle ==
    /\ soup = None
    /\ scrape_soup = None
    /\ written = <<>>
    /\ log = <<>>
    /\ gets = <<>>
    /\ exit_status = None

\* the sequences of at most n elements of S
RECURSIVE SeqsUpTo(_, _)
SeqsUpTo(S, n) ==
    IF n = 0 THEN {<<>>}
    ELSE LET shorter == SeqsUpTo(S, n - 1)
         IN  shorter \cup {Append(t, c) : t \in {s \in shorter : Len(s) = n - 1},
                                          c \in S}

RECURSIVE cells_of(_, _)
cells_of(tag, texts) ==
    IF texts = <<>> THEN <<>>
    ELSE <<Cell(tag, Head(texts), NoAttr, NoAttr)>> \o cells_of(tag, Tail(texts))

\* a row of td cells, and a row of th cells, with these texts
tds(texts) == Row(cells_of("td", texts))

ths(texts) == Row(cells_of("th", texts))

---------------------------------------------------------------------------
(* SpecText: the text helpers called on every text up to MaxLen characters *)

MaxLen == 4

TextAlphabet == {"0", "1", "5", "7", ".", ",", "%"}

T_1234 == <<"1", ",", "2", "3", "4">>

T_4567pct == <<"4", "5", ".", "6", "7", "%">>

T_NA == <<"N", "/", "A">>

T_123dots == <<"1", ".", "2", ".", "3">>

ExampleTexts == {T_1234, <<EmDash>>, T_4567pct, T_NA, T_123dots}

Texts == SeqsUpTo(TextAlphabet, MaxLen) \cup ExampleTexts

TextInit ==
    /\ \E v \in Texts : call = [fn |-> "none", arg |-> v, ret |-> None]
    /\ pc = "call"
    /\ ParserIdle
    /\ RunIdle

CallParseInt ==
    /\ pc = "call"
    /\ call.fn = "none"
    /\ call' = [fn |-> "parse_int", arg |-> call.arg, ret |-> parse_int(call.arg)]
    /\ UNCHANGED <<pc, parser_vars, run_vars>>

CallParseFloat ==
    /\ pc = "call"
    /\ call.fn = "none"
    /\ \E r \in parse_float(call.arg) :
           call' = [fn |-> "parse_float", arg |-> call.arg, ret |-> r]
    /\ UNCHANGED <<pc, parser_vars, run_vars>>

TextNext == CallParseInt \/ CallParseFloat

SpecText == TextInit /\ [][TextNext]_vars

---------------------------------------------------------------------------
(* SpecSummary: parse_results_table on the tables made of one of the header *)
(* layouts and at most MaxSummaryRows data rows                             *)

MaxSummaryRows == 2

T_Party == <<"P", "a", "r", "t", "y">>

T_Votes == <<"V", "o", "t", "e", "s">>

T_Seats == <<"S", "e", "a", "t", "s">>

T_PlusMinus == <<"+", "/", EnDash>>

T_Political_party == <<"P", "o", "l", "i", "t", "i", "c", "a", "l", " ", "p", "a", "r", "t", "y">>

T_Swing == <<"S", "w", "i", "n", "g">>

T_Results == <<"R", "e", "s", "u", "l", "t", "s">>

T_Acme_Party == <<"A", "c", "m", "e", " ", "P", "a", "r", "t", "y">>

T_12345 == <<"1", "2", ",", "3", "4", "5">>

T_555pct == <<"5", "5", ".", "5", "%">>

T_Total == <<"T", "o", "t", "a", "l">>

T_22245 == <<"2", "2", ",", "2", "4", "5">>

T_Beta == <<"B", "e", "t", "a">>

T_Gamma == <<"G", "a", "m", "m", "a">>

T_Delta_fn == <<" ", "D", "e", "l", "t", "a", " ", "[", "2", "]">>

T_1000 == <<"1", ",", "0", "0", "0">>

T_2500 == <<"2", ",", "5", "0", "0">>

\* Party (2 columns: swatch and name) | Votes | % | Seats | +/-
H_example ==
    Row(<<Cell("th", T_Party, Attr(<<"2">>), NoAttr), th(T_Votes), th(<<"%">>),
          th(T_Seats), th(T_PlusMinus)>>)

H_plain == ths(<<T_Political_party, T_Votes, <<"%">>, T_Seats, T_Swing>>)

\* colspans of 3, none, 0 and " 2 "
H_spans ==
    Row(<<Cell("th", T_Party, Attr(<<"3">>), NoAttr), th(T_Votes),
          Cell("th", <<"%">>, Attr(<<"0">>), NoAttr),
          Cell("th", T_Seats, Attr(<<" ", "2", " ">>), NoAttr)>>)

H_title == Row(<<Cell("th", T_Results, Attr(<<"6">>), NoAttr)>>)

\* a row with th cells none of which says "votes"
H_no_votes == ths(<<T_Party, T_Seats>>)

\* a colspan that is no integer, and a negative one
H_bad_span ==
    Row(<<Cell("th", T_Party, Attr(<<"2", "x">>), NoAttr), th(T_Votes), th(T_Seats)>>)

H_neg_span ==
    Row(<<Cell("th", T_Party, Attr(<<"-", "1">>), NoAttr), th(T_Votes), th(T_Seats)>>)

\* a header with a swing of the vote share before the change in seats
H_swing == ths(<<T_Party, T_Votes, <<"%">>, T_Swing, T_Seats, T_PlusMinus>>)

SummaryLayouts ==
    {<<H_example>>, <<H_title, H_example>>, <<H_plain>>, <<H_spans>>, <<H_no_votes>>,
     <<H_bad_span>>, <<H_neg_span>>, <<H_swing>>}

D_acme == tds(<<<<>>, T_Acme_Party, T_12345, T_555pct, <<"7">>, <<"+", "2">>>>)

D_total ==
    Row(<<Cell("th", T_Total, Attr(<<"2">>), NoAttr), td(T_22245), td(<<"1", "0", "0">>),
          td(<<"1", "5">>), td(<<>>)>>)

D_blank == tds(<<<<>>, <<>>, <<" ">>, <<>>, <<>>, <<>>>>)

D_party_only == tds(<<T_Beta, <<>>, <<EmDash>>, <<>>, <<"3">>, <<>>>>)

D_votes_only == tds(<<<<>>, <<>>, <<"5", "0", "0">>, <<>>, <<>>, <<>>>>)

D_short == tds(<<T_Gamma>>)

D_no_cells == Row(<<>>)

D_footnotes ==
    tds(<<<<"[", "1", "]">>, T_Delta_fn, T_1000, <<"4", "4", ".", "5">>, <<"8">>,
          <<EnDash, "1">>>>)

SummaryRows ==
    {D_acme, D_total, D_blank, D_party_only, D_votes_only, D_short, D_no_cells,
     D_footnotes}

SummaryTables ==
    {[classes |-> {"wikitable"}, rows |-> layout \o data] :
        layout \in SummaryLayouts, data \in SeqsUpTo(SummaryRows, MaxSummaryRows)}
    \cup {[classes |-> {"wikitable"}, rows |-> <<>>]}

SummaryInit ==
    /\ pc = "parse_results_table"
    /\ table \in SummaryTables
    /\ headers = <<>>
    /\ cols = None
    /\ row_i = 0
    /\ results = <<>>
    /\ current_constituency = None
    /\ constituencies = <<>>
    /\ ret = None
    /\ CallIdle
    /\ RunIdle

SummaryNext == ResultsBegin \/ ResultsRow \/ ResultsReturn

SpecSummary == SummaryInit /\ [][SummaryNext]_vars

---------------------------------------------------------------------------
(* SpecConst: parse_by_constituency_table on the tables made of one of the *)
(* header layouts and at most MaxConstRows data rows                       *)

MaxConstRows == 3

T_Constituency == <<"C", "o", "n", "s", "t", "i", "t", "u", "e", "n", "c", "y">>

T_Candidate == <<"C", "a", "n", "d", "i", "d", "a", "t", "e">>

T_No == <<"N", "o", ".">>

\* No. | Constituency | Party | Candidate | Votes
H_numbered == ths(<<T_No, T_Constituency, T_Party, T_Candidate, T_Votes>>)

\* Constituency | Party (2 columns: swatch and name) | Candidate | Votes
H_named ==
    Row(<<th(T_Constituency), Cell("th", T_Party, Attr(<<"2">>), NoAttr),
          th(T_Candidate), th(T_Votes)>>)

ConstLayouts == {<<H_numbered>>, <<H_title, H_named>>}

\* the first row of constituency A: its name spans two rows
G_A ==
    Row(<<Cell("td", <<"A">>, NoAttr, Attr(<<"2">>)), td(<<>>), td(<<"P">>),
          td(<<"x">>), td(T_1000)>>)

G_B ==
    Row(<<Cell("td", <<"B">>, NoAttr, Attr(<<"2">>)), td(<<>>), td(<<"Q">>),
          td(<<"v">>), td(<<"0">>)>>)

\* rows that carry no name cell
G_y == tds(<<<<>>, <<"Q">>, <<"y">>, T_2500>>)

G_z == tds(<<<<>>, <<"R">>, <<"z">>, <<EmDash>>>>)

G_w == tds(<<<<>>, <<"P">>, <<"w">>, T_2500>>)

\* a row whose first cell is a number
G_7 == tds(<<<<"7">>, <<"S">>, <<"t">>, <<"3", "0", "0">>>>)

\* a row whose first cell is a name without rowspan
G_A_plain == tds(<<<<"A">>, <<>>, <<"R">>, <<"u">>, T_2500>>)

\* the only row of constituency C, its votes unknown
G_C == Row(<<Cell("td", <<"C">>, NoAttr, Attr(<<"1">>)), td(<<>>), td(<<"R">>),
             td(<<"s">>), td(<<EmDash>>)>>)

G_total == Row(<<th(T_Total), td(<<>>), td(<<>>), td(<<>>), td(<<"9", "0">>)>>)

ConstRows == {G_A, G_B, G_C, G_y, G_z, G_w, G_7, G_A_plain, G_total}

ConstTables ==
    {[classes |-> {"wikitable"}, rows |-> layout \o data] :
        layout \in ConstLayouts, data \in SeqsUpTo(ConstRows, MaxConstRows)}

ConstInit ==
    /\ pc = "parse_by_constituency_table"
    /\ table \in ConstTables
    /\ headers = <<>>
    /\ cols = None
    /\ row_i = 0
    /\ results = <<>>
    /\ current_constituency = None
    /\ constituencies = <<>>
    /\ ret = None
    /\ CallIdle
    /\ RunIdle

ConstNext == ConstBegin \/ ConstRow \/ ConstFinish

SpecConst == ConstInit /\ [][ConstNext]_vars

\* the two extractors, each on its own tables
SpecExtract == (SummaryInit \/ ConstInit) /\ [][SummaryNext \/ ConstNext]_vars

---------------------------------------------------------------------------
(* SpecClean: clean_text on the texts of at most MaxCleanLen characters    *)
(* over brackets, a digit and two kinds of whitespace, and on an example   *)

MaxCleanLen == 6

CleanAlphabet == {"[", "]", "1", " ", "\t"}

\* " a [12]  b<tab>[x] "
T_noted ==
    <<" ", "a", " ", "[", "1", "2", "]", " ", " ", "b", "\t", "[", "x", "]", " ">>

CleanTexts == SeqsUpTo(CleanAlphabet, MaxCleanLen) \cup {T_noted, T_Delta_fn}

CleanInit ==
    /\ \E v \in CleanTexts : call = [fn |-> "none", arg |-> v, ret |-> None]
    /\ pc = "call"
    /\ ParserIdle
    /\ RunIdle

CallCleanText ==
    /\ pc = "call"
    /\ call.fn = "none"
    /\ call' = [fn |-> "clean_text", arg |-> call.arg, ret |-> Str(clean_text(call.arg))]
    /\ UNCHANGED <<pc, parser_vars, run_vars>>

CleanNext == CallCleanText

SpecClean == CleanInit /\ [][CleanNext]_vars

---------------------------------------------------------------------------
(* SpecGroups: parse_by_constituency_table on tables of the layout its     *)
(* docstring names, and of a layout with one percentage column, with at    *)
(* most MaxGroupRows data rows                                             *)

MaxGroupRows == 3

T_Electorate == <<"E", "l", "e", "c", "t", "o", "r", "a", "t", "e">>

T_Turnout == <<"T", "u", "r", "n", "o", "u", "t">>

T_Blank == <<"B", "l", "a", "n", "k">>

T_5000 == <<"5", ",", "0", "0", "0">>

T_3000 == <<"3", ",", "0", "0", "0">>

T_600 == <<"6", "0", ".", "0">>

T_333 == <<"3", "3", ".", "3">>

T_667 == <<"6", "6", ".", "7">>

T_555 == <<"5", "5", ".", "5">>

T_445 == <<"4", "4", ".", "5">>

\* Constituency | Electorate | Turnout | % | Political party | Candidate |
\* Votes | %
H_full ==
    ths(<<T_Constituency, T_Electorate, T_Turnout, <<"%">>, T_Political_party,
          T_Candidate, T_Votes, <<"%">>>>)

\* Constituency | Party | Candidate | Votes | %
H_one_pct == ths(<<T_Constituency, T_Party, T_Candidate, T_Votes, <<"%">>>>)

\* the first row of constituency A, with its electorate, its turnout and a
\* candidate
F_A ==
    Row(<<Cell("td", <<"A">>, NoAttr, Attr(<<"2">>)), td(T_5000), td(T_3000),
          td(T_600), td(<<"P">>), td(<<"x">>), td(T_1000), td(T_333)>>)

\* a first row of constituency A that has no candidate of its own
F_A_alone ==
    Row(<<Cell("td", <<"A">>, NoAttr, Attr(<<"3">>)), td(T_5000), td(T_3000),
          td(T_600), td(<<>>), td(<<>>), td(<<>>), td(<<>>)>>)

\* rows without the name cell: a candidate; a candidate beside figures in
\* the electorate and turnout cells; the blank ballots
F_y == tds(<<<<>>, <<>>, <<>>, <<"Q">>, <<"y">>, T_2500, T_667>>)

F_z == tds(<<<<"9", "0", "0">>, <<"8", "0", "0">>, <<"8", "8", ".", "8">>, <<"R">>,
             <<"z">>, <<"5", "0", "0">>, T_445>>)

F_blank == tds(<<<<>>, <<>>, <<>>, <<>>, T_Blank, <<"1", "2">>, <<>>>>)

\* a row that keeps an empty cell in the place of the name
F_own == tds(<<<<>>, <<>>, <<>>, <<>>, <<"S">>, <<"t">>, <<"3", "0", "0">>, T_555>>)

\* the first row of constituency B, its electorate cell saying what the
\* figure is
T_5000_registered ==
    <<"5", ",", "0", "0", "0", " ", "r", "e", "g", "i", "s", "t", "e", "r", "e", "d">>

F_B ==
    Row(<<Cell("td", <<"B">>, NoAttr, Attr(<<"2">>)), td(T_5000_registered),
          td(T_3000), td(T_600), td(<<"Q">>), td(<<"v">>), td(<<"4", "0", "0">>),
          td(T_445)>>)

\* a row whose first cell spans two rows and is empty
F_unnamed ==
    Row(<<Cell("td", <<>>, NoAttr, Attr(<<"2">>)), td(<<>>), td(<<>>), td(<<>>),
          td(<<"T">>), td(<<"k">>), td(<<"7", "0", "0">>), td(<<>>)>>)

FullRows == {F_A, F_A_alone, F_B, F_unnamed, F_y, F_z, F_blank, F_own}

O_A ==
    Row(<<Cell("td", <<"A">>, NoAttr, Attr(<<"2">>)), td(<<"P">>), td(<<"x">>),
          td(T_1000), td(T_555)>>)

O_y == tds(<<<<"Q">>, <<"y">>, <<"8", "0", "0">>, T_445>>)

OnePctRows == {O_A, O_y}

GroupTables ==
    {[classes |-> {"wikitable"}, rows |-> <<H_full>> \o data] :
        data \in SeqsUpTo(FullRows, MaxGroupRows)}
    \cup
    {[classes |-> {"wikitable"}, rows |-> <<H_one_pct>> \o data] :
        data \in SeqsUpTo(OnePctRows, MaxGroupRows)}

GroupsInit ==
    /\ pc = "parse_by_constituency_table"
    /\ table \in GroupTables
    /\ headers = <<>>
    /\ cols = None
    /\ row_i = 0
    /\ results = <<>>
    /\ current_constituency = None
    /\ constituencies = <<>>
    /\ ret = None
    /\ CallIdle
    /\ RunIdle

SpecGroups == GroupsInit /\ [][ConstNext]_vars

---------------------------------------------------------------------------
(* SpecLocate: the two locators called on the pages of at most MaxTables *)
(* tables                                                                 *)

MaxTables == 3

Page(ids, tables) == [ids |-> ids, tables |-> tables]

Wikitable(rows) == [classes |-> {"wikitable"}, rows |-> rows]

T_PARTY == <<"P", "A", "R", "T", "Y">>

T_Total_votes == <<"T", "o", "t", "a", "l", " ", "v", "o", "t", "e", "s">>

T_SEATS_won == <<" ", "S", "E", "A", "T", "S", " ", "w", "o", "n">>

T_all_three ==
    <<"P", "a", "r", "t", "y", ",", " ", "v", "o", "t", "e", "s", ",", " ",
      "s", "e", "a", "t", "s">>

L_results == Wikitable(<<H_example, D_acme>>)

\* the keywords in other cases and inside longer labels
L_upper == [classes |-> {"wikitable", "sortable"},
            rows    |-> <<ths(<<T_PARTY, T_Total_votes, T_SEATS_won>>)>>]

\* the header in the second row
L_titled == Wikitable(<<H_title, H_example>>)

\* no marker class
L_unmarked == [classes |-> {"sortable"}, rows |-> <<H_example, D_acme>>]

\* the three keywords spread over two rows
L_split == Wikitable(<<ths(<<T_Party, T_Votes>>), ths(<<T_Seats>>)>>)

\* the three keywords in td cells
L_td == Wikitable(<<tds(<<T_Party, T_Votes, T_Seats>>)>>)

\* the three keywords in one header cell
L_one_cell == Wikitable(<<ths(<<T_all_three>>)>>)

L_const == Wikitable(<<H_numbered, G_A>>)

L_const_unmarked == [classes |-> {}, rows |-> <<H_numbered, G_A>>]

LocateTables ==
    {L_results, L_upper, L_titled, L_unmarked, L_split, L_td, L_one_cell, L_const,
     L_const_unmarked}

LocatePages ==
    {Page(ids, tables) : ids \in {{}, {"Results"}, {"Results", "By_constituency"}},
                         tables \in SeqsUpTo(LocateTables, MaxTables)}

LocateInit ==
    /\ \E page \in LocatePages : call = [fn |-> "none", arg |-> page, ret |-> None]
    /\ pc = "call"
    /\ ParserIdle
    /\ RunIdle

CallFindResultsTable ==
    /\ pc = "call"
    /\ call.fn = "none"
    /\ call' = [fn  |-> "find_results_table", arg |-> call.arg,
                ret |-> find_results_table(call.arg)]
    /\ UNCHANGED <<pc, parser_vars, run_vars>>

CallFindConstituencyTable ==
    /\ pc = "call"
    /\ call.fn = "none"
    /\ call' = [fn  |-> "find_constituency_table", arg |-> call.arg,
                ret |-> find_constituency_table(call.arg)]
    /\ UNCHANGED <<pc, parser_vars, run_vars>>

LocateNext == CallFindResultsTable \/ CallFindConstituencyTable

SpecLocate == LocateInit /\ [][LocateNext]_vars

---------------------------------------------------------------------------
(* SpecRun: one run, the server answering each GET with an exception, an *)
(* error status or one of the pages                                       *)

R_summary == Wikitable(<<H_example, D_acme, D_footnotes, D_total>>)

R_summary_no_rows == Wikitable(<<H_example, D_total, D_blank>>)

R_summary_bad_span == Wikitable(<<H_bad_span, D_acme>>)

R_const == [classes |-> {"wikitable", "sortable"},
            rows    |-> <<H_title, H_named, G_A, G_y, G_C>>]

R_const_unmarked == [classes |-> {"sortable"}, rows |-> <<H_named, G_A, G_y>>]

R_const_no_groups == Wikitable(<<H_named, G_y, G_total>>)

H_named_bad_span ==
    Row(<<th(T_Constituency), Cell("th", T_Party, Attr(<<"2", "x">>), NoAttr),
          th(T_Candidate), th(T_Votes)>>)

R_const_bad_span == Wikitable(<<H_named_bad_span, G_A>>)

P_full == Page({"Results", "By_constituency"}, <<R_summary, R_const>>)

P_summary_only == Page({"Results"}, <<R_summary>>)

P_no_anchor == Page({"Results"}, <<R_summary, R_const>>)

P_no_const_table == Page({"Results", "By_constituency"}, <<R_const_unmarked, R_summary>>)

P_no_groups == Page({"By_constituency"}, <<R_summary, R_const_no_groups>>)

P_const_only == Page({"By_constituency"}, <<R_const>>)

P_empty == Page({}, <<>>)

P_no_rows == Page({"By_constituency"}, <<R_summary_no_rows, R_const>>)

P_bad_span == Page({"Results"}, <<R_summary_bad_span>>)

P_const_bad_span == Page({"By_constituency"}, <<R_summary, R_const_bad_span>>)

RunPages ==
    {P_full, P_summary_only, P_no_anchor, P_no_const_table, P_no_groups, P_const_only,
     P_empty, P_no_rows, P_bad_span, P_const_bad_span}

Gets ==
    {Raises(e) : e \in RequestExceptions}
        \cup {Response(404, P_empty), Response(500, P_empty)}
        \cup {Response(200, page) : page \in RunPages}

RunInit ==
    /\ pc = "main"
    /\ CallIdle
    /\ ParserIdle
    /\ RunIdle

RunNext ==
    \/ Main
    \/ \E get \in Gets : Fetch(get)
    \/ FindResults
    \/ ResultsBegin
    \/ ResultsRow
    \/ ResultsReturn
    \/ CheckResults
    \/ WriteSummary
    \/ \E get \in Gets : FetchConstituency(get)
    \/ FindConstituency
    \/ ConstBegin
    \/ ConstRow
    \/ ConstFinish
    \/ WriteConstituency

SpecRun == RunInit /\ [][RunNext]_vars

---------------------------------------------------------------------------
(* SpecRender: parse_results_table on the tables of SpecSummary, and       *)
(* render_general on every list of records it returns that the scraper     *)
(* writes (the lists that are not empty)                                   *)

RenderGeneral ==
    /\ pc = "results_returned"
    /\ "ok" \in DOMAIN ret
    /\ ret.ok # <<>>
    /\ \E out \in render_general(ret.ok) :
           call' = [fn |-> "render_general", arg |-> ret.ok, ret |-> out]
    /\ pc' = "rendered"
    /\ UNCHANGED <<parser_vars, run_vars>>

RenderNext == SummaryNext \/ RenderGeneral

SpecRender == SummaryInit /\ [][RenderNext]_vars

---------------------------------------------------------------------------
(* The digit characters of a text, counted independently of the helpers *)

DigitPos(t) == {i \in 1..Len(t) : IsDigit(t[i])}

\* the digit at i times ten to the number of digits to its right
PlaceValue(t, i) ==
    DigitVal(t[i]) * Pow10(Cardinality({j \in DigitPos(t) : j > i}))

RECURSIVE SumPlaceValues(_, _)
SumPlaceValues(S, t) ==
    IF S = {} THEN 0
    ELSE LET i == CHOOSE j \in S : TRUE
         IN  PlaceValue(t, i) + SumPlaceValues(S \ {i}, t)

DigitsNumber(t) == SumPlaceValues(DigitPos(t), t)

\* C3: parse_int returns the integer spelled by the text's digits in order
\* when there is a digit, None when there is none, and never raises.
C3_ParseIntTotal ==
    call.fn = "parse_int" =>
        /\ ~IsRaised(call.ret)
        /\ DigitPos(call.arg) = {} => call.ret = None
        /\ DigitPos(call.arg) # {} =>
               /\ call.ret = IntVal(DigitsNumber(call.arg))
               /\ call.ret.val >= 0
        /\ call.arg = T_1234 => call.ret = IntVal(1234)
        /\ call.arg \in {<<EmDash>>, <<>>} => call.ret = None

C3_Witness ==
    /\ call.fn = "parse_int"
    /\ call.arg = T_1234
    /\ call.ret = IntVal(1234)

\* the digits to the right of the first dot
FracDigits(t) ==
    Cardinality({j \in DigitPos(t) : \E d \in 1..(j - 1) : t[d] = "."})

AbsDiff(a, b) == IF a >= b THEN a - b ELSE b - a

\* C4: parse_float drops every character but digits and dots and returns the
\* decimal that is left rounded to the nearest hundredth, or None when what is
\* left is no decimal (several dots, or no digit); it never raises.
C4_ParseFloatTotal ==
    call.fn = "parse_float" =>
        LET t     == call.arg
            ndots == Cardinality({i \in 1..Len(t) : t[i] = "."})
            scale == Pow10(FracDigits(t))
        IN  /\ ~IsRaised(call.ret)
            /\ call.ret = None <=> (ndots > 1 \/ DigitPos(t) = {})
            /\ call.ret # None =>
                   /\ DOMAIN call.ret = {"hundredths"}
                   /\ 2 * AbsDiff(100 * DigitsNumber(t),
                                  call.ret.hundredths * scale) <= scale
            /\ t = T_4567pct => call.ret = Float(4567)
            /\ t \in {T_NA, <<>>, <<".">>, T_123dots} => call.ret = None

C4_Witness ==
    /\ call.fn = "parse_float"
    /\ call.arg = T_4567pct
    /\ call.ret = Float(4567)

---------------------------------------------------------------------------
(* The locators, stated on the page *)

\* some th cell of the row holds the keyword, whatever the case of letters
ThSays(row, kw) ==
    \E k \in 1..Len(row.cells) :
        row.cells[k].tag = "th" /\ Contains(kw, lower(row.cells[k].text))

\* the table carries the marker class and one of its rows has th cells that
\* between them say party, votes and seats
QualifiesAsResults(tbl) ==
    /\ "wikitable" \in tbl.classes
    /\ \E r \in 1..Len(tbl.rows) :
           \A kw \in {K_party, K_votes, K_seats} : ThSays(tbl.rows[r], kw)

\* C1: find_results_table returns the first table of the page, in document
\* order, that carries the wikitable class and has a row whose th cells
\* between them contain party, votes and seats in any case; it never returns
\* a table without the class; it returns None when no table qualifies.
C1_FirstResultsTable ==
    call.fn = "find_results_table" =>
        LET tbls == call.arg.tables
            Q    == {i \in 1..Len(tbls) : QualifiesAsResults(tbls[i])}
        IN  /\ Q = {} => call.ret = None
            /\ Q # {} => call.ret = tbls[CHOOSE i \in Q : \A j \in Q : i <= j]
            /\ call.ret # None => "wikitable" \in call.ret.classes

\* the table returned comes after a table that lacks only the class and a
\* table whose keywords are spread over two rows
C1_Witness ==
    /\ call.fn = "find_results_table"
    /\ call.arg.tables = <<L_unmarked, L_split, L_upper>>
    /\ call.ret = L_upper

---------------------------------------------------------------------------
(* Header expansion, stated on the header row itself *)

\* the header row of the table being read: the first row one of whose th
\* cells holds the extractor's keyword
HeaderRowCells ==
    LET kw   == IF pc = "results_rows" THEN K_votes ELSE K_constituency
        rows == table.rows
        hits == {i \in 1..Len(rows) :
                    \E k \in 1..Len(rows[i].cells) :
                        /\ rows[i].cells[k].tag = "th"
                        /\ Contains(kw, lower(strip(rows[i].cells[k].text)))}
    IN  SelectSeq(rows[CHOOSE i \in hits : \A j \in hits : i <= j].cells, IsTh)

\* the colspan attribute is absent or spells a number that is not negative
DeclaresSpan(cell) ==
    \/ cell.colspan = NoAttr
    \/ LET digits == SelectSeq(cell.colspan[1], IsDigit)
       IN  /\ digits # <<>>
           /\ \A i \in 1..Len(cell.colspan[1]) :
                  IsDigit(cell.colspan[1][i]) \/ cell.colspan[1][i] = " "

SpanOf(cell) ==
    IF cell.colspan = NoAttr THEN 1
    ELSE DecValue(SelectSeq(cell.colspan[1], IsDigit))

\* the spans of the first k header cells, added up
RECURSIVE SpanSum(_, _)
SpanSum(cells, k) ==
    IF k = 0 THEN 0 ELSE SpanSum(cells, k - 1) + SpanOf(cells[k])

\* C10: in both extractors the expanded header is as long as the sum of the
\* header cells' colspans (1 for a cell without colspan), and the label of
\* the k-th header cell fills exactly the colspan slots that follow the
\* slots of the cells before it.
C10_HeaderExpansion ==
    pc \in {"results_rows", "constituency_rows"} =>
        LET hc == HeaderRowCells
        IN  (\A k \in 1..Len(hc) : DeclaresSpan(hc[k])) =>
                /\ Len(headers) = SpanSum(hc, Len(hc))
                /\ \A k \in 1..Len(hc) :
                       \A i \in (SpanSum(hc, k - 1) + 1)..SpanSum(hc, k) :
                           headers[i] = lower(clean_text(hc[k].text))

\* the header with colspans 3, none, 0 and " 2 " has been expanded
C10_Witness ==
    /\ pc = "results_rows"
    /\ HeaderRowCells = H_spans.cells
    /\ headers = <<K_party, K_party, K_party, K_votes, K_seats, K_seats>>

---------------------------------------------------------------------------
(* clean_text, stated on the text it returns *)

Cleaned == call.fn = "clean_text"

\* the text has a "[", one or more digits and a "]" in a row
HasBracketedNumeral(t) ==
    \E i, j \in 1..Len(t) :
        /\ j >= i + 2
        /\ t[i] = "[" /\ t[j] = "]"
        /\ \A k \in (i + 1)..(j - 1) : IsDigit(t[k])

\* the text has a "[" followed, after digits or at once, by another "["
HasBracketInBracket(t) ==
    \E i, j \in 1..Len(t) :
        /\ j > i
        /\ t[i] = "[" /\ t[j] = "["
        /\ \A k \in (i + 1)..(j - 1) : IsDigit(t[k])

\* no whitespace at either end, and every whitespace character is a space
\* with no whitespace after it
SpacesCollapsed(t) ==
    \A i \in 1..Len(t) :
        IsSpace(t[i]) =>
            /\ t[i] = " "
            /\ i # 1 /\ i # Len(t)
            /\ ~IsSpace(t[i + 1])

\* C20 as stated: whatever the text, the result of clean_text has no
\* bracketed numeral, no whitespace at its ends and no whitespace but
\* single spaces.
C20_CleanForEveryText ==
    Cleaned => (~HasBracketedNumeral(call.ret.str) /\ SpacesCollapsed(call.ret.str))

\* C20, the bracketed numerals kept to the texts without a bracket opened
\* inside a bracket: the result of clean_text has no whitespace at its ends
\* and no whitespace but single spaces, whatever the text, and no bracketed
\* numeral when the text has no "[" followed by digits, or by nothing, and
\* another "[".
C20_CleanText ==
    Cleaned =>
        /\ SpacesCollapsed(call.ret.str)
        /\ ~HasBracketInBracket(call.arg) => ~HasBracketedNumeral(call.ret.str)

\* a text with two footnote marks, a run of two spaces, a tab and a bracket
\* that is no numeral has been cleaned to "a b [x]"
C20_Witness ==
    /\ Cleaned
    /\ call.arg = T_noted
    /\ call.ret = Str(<<"a", " ", "b", " ", "[", "x", "]">>)

---------------------------------------------------------------------------
(* parse_results_table, stated on the row being read and the header *)

SummaryExampleHeader == <<K_party, K_party, K_votes, <<"%">>, K_seats, T_PlusMinus>>

SummaryExampleRecord ==
    [party      |-> T_Acme_Party,
     votes      |-> IntVal(12345),
     percentage |-> Float(5550),
     seats      |-> IntVal(7),
     change     |-> <<"+", "2">>]

\* the leftmost slot of the expanded header that holds the keyword, counted
\* from 0 (-1: none)
SlotOf(kw) ==
    LET hits == {i \in 1..Len(headers) : Contains(kw, headers[i])}
    IN  IF hits = {} THEN -1 ELSE (CHOOSE i \in hits : \A j \in hits : i <= j) - 1

\* the cleaned text of the k-th cell, counted from 0, of the row being read
RowText(k) ==
    LET cells == table.rows[row_i].cells
    IN  IF k >= 0 /\ k < Len(cells) THEN clean_text(cells[k + 1].text) ELSE <<>>

RowPartyText ==
    IF SlotOf(K_party) = -1 THEN <<>>
    ELSE IF RowText(SlotOf(K_party)) # <<>> THEN RowText(SlotOf(K_party))
    ELSE RowText(SlotOf(K_party) + 1)

RowVotesText == RowText(SlotOf(K_votes))

\* the row being read says one of the footer words
RowIsFooter ==
    \E kw \in {K_total, K_source, K_valid, K_invalid, K_registered, K_blank} :
        Contains(kw, lower(clean_text(row_get_text(table.rows[row_i]))))

\* a step that reads one data row of the summary table
SummaryRowStep == pc = "results_rows" /\ row_i <= Len(table.rows) /\ row_i' = row_i + 1

SummaryRowDropped == SummaryRowStep /\ results' = results

SummaryRowKept == SummaryRowStep /\ results' # results

SummaryExampleExtracted ==
    (SummaryRowStep /\ headers = SummaryExampleHeader /\ table.rows[row_i] = D_acme)
        => results' = Append(results, SummaryExampleRecord)

SummaryPartyFromColumn ==
    SummaryRowKept =>
        /\ Len(results') = Len(results) + 1
        /\ SubSeq(results', 1, Len(results)) = results
        /\ results'[Len(results')].party = RowPartyText

\* C2 as stated: under the header [party, party, votes, %, seats, +/-] the
\* example row gives the example record; the party of a kept row is the text
\* of the resolved party column, or of the next column when that is empty;
\* and a row is dropped only if its party text and its votes text are both
\* empty.
C2_DroppedOnlyIfBothEmpty ==
    [][/\ SummaryExampleExtracted
       /\ SummaryPartyFromColumn
       /\ SummaryRowDropped => (RowPartyText = <<>> /\ RowVotesText = <<>>)]_vars

\* C2, the drop rule kept to the rows that have cells and say no footer
\* word: such a row is dropped if and only if its party text and its votes
\* text are both empty (a footer row is dropped whatever its texts are).
C2_SummaryRows ==
    [][/\ SummaryExampleExtracted
       /\ SummaryPartyFromColumn
       /\ (SummaryRowStep /\ table.rows[row_i].cells # <<>> /\ ~RowIsFooter) =>
              (results' = results <=> (RowPartyText = <<>> /\ RowVotesText = <<>>))
       /\ (SummaryRowStep /\ RowIsFooter) => results' = results]_vars

\* the example row has been read under the example header
C2_Witness ==
    /\ pc = "results_rows"
    /\ headers = SummaryExampleHeader
    /\ row_i > 1
    /\ table.rows[row_i - 1] = D_acme
    /\ results # <<>>
    /\ results[Len(results)] = SummaryExampleRecord

---------------------------------------------------------------------------
(* parse_results_table, the columns it resolves *)

\* the leftmost slot of the expanded header that holds any of the keywords,
\* counted from 0, or None
LeftmostHolding(kws) ==
    LET hits == {i \in 1..Len(headers) : \E kw \in kws : Contains(kw, headers[i])}
    IN  IF hits = {} THEN None ELSE IntVal(MinOf(hits) - 1)

\* the leftmost slot whose text is exactly the label, counted from 0, or None
LeftmostSaying(label) ==
    LET hits == {i \in 1..Len(headers) : headers[i] = label}
    IN  IF hits = {} THEN None ELSE IntVal(MinOf(hits) - 1)

\* the cleaned text of the row's cell at a resolved column, empty when the
\* column is unresolved or the row is too short
RowTextAt(col) == IF IsNone(col) THEN <<>> ELSE RowText(col.val)

SummaryColumnsResolved == pc = "results_rows"

LeftmostParty == SummaryColumnsResolved => cols.party = LeftmostHolding({K_party})

LeftmostVotes == SummaryColumnsResolved => cols.votes = LeftmostHolding({K_votes})

LeftmostSeats == SummaryColumnsResolved => cols.seats = LeftmostHolding({K_seats})

LeftmostPct == SummaryColumnsResolved => cols.pct = LeftmostSaying(K_pct)

LeftmostChange ==
    SummaryColumnsResolved => cols.change = LeftmostHolding({K_plus, K_change, K_swing})

\* the change of a kept row is the text of its cell at the resolved change
\* column, and its seats are read from the text at the seats column
SummaryReadsResolved ==
    SummaryRowKept =>
        /\ results'[Len(results')].change = RowTextAt(cols.change)
        /\ results'[Len(results')].seats = parse_int(RowTextAt(cols.seats))
        /\ results'[Len(results')].votes = parse_int(RowTextAt(cols.votes))
        /\ results'[Len(results')].percentage \in parse_float(RowTextAt(cols.pct))

\* C19 as stated: once the header is expanded, party, votes and seats are
\* the leftmost slots holding their keyword, percentage the leftmost slot
\* saying exactly %, and change the leftmost slot holding any of +, change
\* and swing; None when no slot matches.
C19_LeftmostMatch ==
    /\ LeftmostParty
    /\ LeftmostVotes
    /\ LeftmostSeats
    /\ LeftmostPct
    /\ LeftmostChange

\* C19 without the change column
LeftmostButChange == LeftmostParty /\ LeftmostVotes /\ LeftmostSeats /\ LeftmostPct

\* the fields of every kept row are read at the resolved columns
ReadsAtResolved == [][SummaryReadsResolved]_vars

\* a header with swing to the left of +/-: the change column is resolved to
\* the slot of +/-, and a row has been kept with the text of that cell
C19_Witness ==
    /\ pc = "results_rows"
    /\ headers = <<K_party, K_votes, K_pct, K_swing, K_seats, T_PlusMinus>>
    /\ cols.change = IntVal(5)
    /\ LeftmostHolding({K_plus, K_change, K_swing}) = IntVal(3)
    /\ row_i > 1
    /\ table.rows[row_i - 1] = D_acme
    /\ results # <<>>
    /\ results[Len(results)].change = <<"+", "2">>

---------------------------------------------------------------------------
(* parse_by_constituency_table, stated on the list it returns *)

ConstReturned == pc = "constituency_returned" /\ "ok" \in DOMAIN ret

\* the places of the candidates whose votes are known
KnownVotes(candidates) ==
    {i \in 1..Len(candidates) : "val" \in DOMAIN candidates[i].votes}

RECURSIVE SumVotesAt(_, _)
SumVotesAt(S, candidates) ==
    IF S = {} THEN 0
    ELSE LET i == CHOOSE j \in S : TRUE
         IN  candidates[i].votes.val + SumVotesAt(S \ {i}, candidates)

VotesOf(candidates) == [i \in 1..Len(candidates) |-> candidates[i].votes]

\* C5: the winner of every returned constituency is the first, in the
\* candidates list, of the candidates with the most known votes; it is
\* {candidate: null, party: null, votes: null} when no votes are known; and
\* it has exactly the fields candidate, party and votes.
C5_WinnerIsFirstMax ==
    ConstReturned =>
        \A e \in 1..Len(ret.ok) :
            LET cs == ret.ok[e].candidates
                K  == KnownVotes(cs)
                w  == ret.ok[e].winner
            IN  /\ DOMAIN w = {"candidate", "party", "votes"}
                /\ K = {} => w = [candidate |-> None, party |-> None, votes |-> None]
                /\ K # {} =>
                       \E k \in K :
                           /\ \A j \in K : cs[j].votes.val <= cs[k].votes.val
                           /\ \A j \in K : j < k => cs[j].votes.val < cs[k].votes.val
                           /\ w = [candidate |-> [str |-> cs[k].candidate],
                                   party     |-> [str |-> cs[k].party],
                                   votes     |-> cs[k].votes]

\* a constituency returned with two candidates level on the most votes, the
\* first of them its winner, and one returned with no known votes
C5_Witness ==
    /\ ConstReturned
    /\ \E e, f \in 1..Len(ret.ok) :
           LET cs == ret.ok[e].candidates
           IN  /\ Len(cs) = 2
               /\ cs[1].votes = IntVal(2500)
               /\ cs[2].votes = IntVal(2500)
               /\ cs[1].candidate # cs[2].candidate
               /\ ret.ok[e].winner.candidate = [str |-> cs[1].candidate]
               /\ KnownVotes(ret.ok[f].candidates) = {}
               /\ ret.ok[f].winner.votes = None

\* C6: total_votes of every returned constituency is the sum of the votes
\* of exactly its candidates whose votes are known; votes [1000, null, 2500]
\* give total_votes 3500 (and winner votes 2500).
C6_TotalVotes ==
    ConstReturned =>
        \A e \in 1..Len(ret.ok) :
            LET cs == ret.ok[e].candidates
            IN  /\ ret.ok[e].total_votes = SumVotesAt(KnownVotes(cs), cs)
                /\ VotesOf(cs) = <<IntVal(1000), None, IntVal(2500)>> =>
                       /\ ret.ok[e].total_votes = 3500
                       /\ ret.ok[e].winner.votes = IntVal(2500)

\* a constituency returned with votes [1000, null, 2500]
C6_Witness ==
    /\ ConstReturned
    /\ \E e \in 1..Len(ret.ok) :
           /\ VotesOf(ret.ok[e].candidates) = <<IntVal(1000), None, IntVal(2500)>>
           /\ ret.ok[e].total_votes = 3500

NamesDiffer(list) ==
    \A i, j \in 1..Len(list) : i # j => list[i].constituency # list[j].constituency

\* the returned list is the groups in the order they were made, each with
\* its candidates in the order they were added
ReturnedInOrder ==
    ConstReturned =>
        /\ Len(ret.ok) = Len(constituencies)
        /\ \A i \in 1..Len(ret.ok) :
               /\ ret.ok[i].constituency = constituencies[i].constituency
               /\ ret.ok[i].candidates = constituencies[i].candidates
        /\ NamesDiffer(ret.ok)

\* a step that reads one data row of the constituency table
ConstRowStep ==
    pc = "constituency_rows" /\ row_i <= Len(table.rows) /\ row_i' = row_i + 1

\* the candidate cand comes from the row being read
FromRow(cand) ==
    LET cells == table.rows[row_i].cells
    IN  /\ cand.candidate = <<>> \/
            \E k \in 1..Len(cells) : cand.candidate = clean_text(cells[k].text)
        /\ cand.votes = None \/
            \E k \in 1..Len(cells) : cand.votes = parse_int(clean_text(cells[k].text))

\* reading a row leaves the groups alone, or adds one candidate of the row
\* at the end of the group of the current name, or, when no group has that
\* name, adds a group of that name with that one candidate at the end
RowMerges ==
    ConstRowStep =>
        \/ constituencies' = constituencies
        \/ /\ "str" \in DOMAIN current_constituency'
           /\ LET name == current_constituency'.str
                  old  == constituencies
                  new  == constituencies'
                  at   == {k \in 1..Len(old) : old[k].constituency = name}
              IN  IF at # {}
                  THEN /\ Len(new) = Len(old)
                       /\ \A k \in 1..Len(old) :
                              IF k \in at
                              THEN /\ new[k].constituency = name
                                   /\ Len(new[k].candidates) = Len(old[k].candidates) + 1
                                   /\ SubSeq(new[k].candidates, 1, Len(old[k].candidates))
                                          = old[k].candidates
                                   /\ FromRow(new[k].candidates[Len(new[k].candidates)])
                              ELSE new[k] = old[k]
                  ELSE /\ Len(new) = Len(old) + 1
                       /\ SubSeq(new, 1, Len(old)) = old
                       /\ new[Len(new)].constituency = name
                       /\ Len(new[Len(new)].candidates) = 1
                       /\ FromRow(new[Len(new)].candidates[1])
           /\ LET first == table.rows[row_i].cells[1]
              IN  (first.rowspan # NoAttr /\ first.rowspan[1] # <<>>
                       /\ clean_text(first.text) # <<>>)
                      => current_constituency'.str = clean_text(first.text)

\* C7: no two groups, and no two entries of the returned list, have the same
\* name; the groups are in the order of the first accepted row of each name;
\* a row whose name already has a group, next to it or not, adds its
\* candidate to that group; each group's candidates are in row order.
C7_GroupsMerge == [](NamesDiffer(constituencies) /\ ReturnedInOrder) /\ [][RowMerges]_vars

\* rows of A, B and A again have been read: two entries, A first with the
\* candidates of its two rows
C7_Witness ==
    /\ ConstReturned
    /\ Len(table.rows) >= 3
    /\ SubSeq(table.rows, Len(table.rows) - 2, Len(table.rows)) = <<G_A, G_B, G_A_plain>>
    /\ Len(ret.ok) = 2
    /\ ret.ok[1].constituency = <<"A">>
    /\ ret.ok[2].constituency = <<"B">>
    /\ Len(ret.ok[1].candidates) = 2
    /\ ret.ok[1].candidates[1].candidate = <<"x">>
    /\ ret.ok[1].candidates[2].candidate = <<"u">>

---------------------------------------------------------------------------
(* parse_by_constituency_table, stated on the row being read *)

FooterWords == {K_total, K_source, K_valid, K_invalid, K_registered, K_blank}

\* the row being read holds one of the words in its lowercased text
SaysFooterWord ==
    \E kw \in FooterWords :
        Contains(kw, lower(clean_text(row_get_text(table.rows[row_i]))))

\* the row being read leaves the groups and the current name as they were
ConstRowSkipped ==
    /\ constituencies' = constituencies
    /\ current_constituency' = current_constituency

\* the first cell of the row being read, and its cleaned text
FirstCell == table.rows[row_i].cells[1]

FirstCellText == clean_text(FirstCell.text)

\* a row with one of the words is skipped by either extractor
FooterRowsSkipped ==
    /\ (ConstRowStep /\ SaysFooterWord) => ConstRowSkipped
    /\ (SummaryRowStep /\ SaysFooterWord) => results' = results

\* a row of the constituency table with none of the words, whose first cell
\* has a rowspan and a name, is read: the name becomes the current one
OtherRowsRead ==
    (/\ ConstRowStep
     /\ table.rows[row_i].cells # <<>>
     /\ ~SaysFooterWord
     /\ FirstCell.rowspan # NoAttr
     /\ FirstCellText # <<>>) => current_constituency' = Str(FirstCellText)

\* C14 as stated: either extractor skips a data row whose lowercased text
\* holds one of total, source, valid, invalid, registered, blank, and
\* a row with none of them is not skipped as a footer row.
C14_SameFooterWords == [][FooterRowsSkipped /\ OtherRowsRead]_vars

\* C14, the part about the rows with none of the words
NoWordNoFooter == [][OtherRowsRead]_vars

\* the row of the blank ballots has been read into group A as a candidate
C14_Witness ==
    /\ pc = "constituency_rows"
    /\ row_i > 1
    /\ table.rows[row_i - 1] = F_blank
    /\ constituencies # <<>>
    /\ LET candidates == constituencies[Len(constituencies)].candidates
       IN  /\ candidates[Len(candidates)].candidate = T_Blank
           /\ candidates[Len(candidates)].votes = IntVal(12)

\* the first cell of the row being read declares a rowspan greater than one
RowspanOverOne ==
    /\ FirstCell.rowspan # NoAttr
    /\ LET span == py_int(strip(FirstCell.rowspan[1]))
       IN  ~IsRaised(span) /\ span.val > 1

\* the first cell of the row being read declares any rowspan but the empty
\* string
RowspanGiven == FirstCell.rowspan # NoAttr /\ FirstCell.rowspan[1] # <<>>

\* the text is a number, its commas and dots set aside
PurelyNumeric(text) == isdigit(remove_char(remove_char(text, ","), "."))

\* the constituency column is column 0 and the first cell names something
NamedInFirstColumn ==
    /\ cols.const = IntVal(0)
    /\ FirstCellText # <<>>
    /\ ~PurelyNumeric(FirstCellText)

\* a step that reads a data row which has cells and none of the footer words
DataRowStep == ConstRowStep /\ table.rows[row_i].cells # <<>> /\ ~SaysFooterWord

\* on a data row that starts a group the first cell's text, unless empty,
\* becomes the current name; a data row that starts none leaves the current
\* name as it was
StartsGroupWhen(starts) ==
    DataRowStep =>
        IF starts
        THEN FirstCellText # <<>> => current_constituency' = Str(FirstCellText)
        ELSE current_constituency' = current_constituency

\* C15 as stated: a data row starts a group exactly when its first cell
\* declares a rowspan greater than one, or the constituency column is
\* column 0 and the first cell's text is neither empty nor purely numeric.
C15_StartsGroup == [][StartsGroupWhen(RowspanOverOne \/ NamedInFirstColumn)]_vars

\* C15 with any non-empty rowspan in the place of a rowspan greater than one
StartsGroupOnAnyRowspan == [][StartsGroupWhen(RowspanGiven \/ NamedInFirstColumn)]_vars

\* under No. | Constituency | ..., the first data row, whose first cell has
\* rowspan 1, has been read and has set the current name
C15_Witness ==
    /\ pc = "constituency_rows"
    /\ cols.const = IntVal(1)
    /\ row_i = 3
    /\ table.rows[2] = G_C
    /\ current_constituency = Str(<<"C">>)

\* the row being read starts a group
StartsGroup == RowspanGiven \/ NamedInFirstColumn

\* a step that reads a data row and adds a candidate to a group
CandidateAdded == DataRowStep /\ constituencies' # constituencies

\* the candidate that the step has added: the last one of the group of the
\* current name
Added ==
    LET k          == entry_index(current_constituency'.str, constituencies')
        candidates == constituencies'[k].candidates
    IN  candidates[Len(candidates)]

\* the cleaned text of the cell of the row being read that is shift places
\* to the left of a resolved column
RowTextLeftOf(col, shift) == IF IsNone(col) THEN <<>> ELSE RowText(col.val - shift)

\* the added candidate's name, votes and percentage are read from the row's
\* cells at the resolved columns, shift places to the left
ReadsCells(shift) ==
    /\ Added.candidate = RowTextLeftOf(cols.candidate, shift)
    /\ Added.votes = parse_int(RowTextLeftOf(cols.votes, shift))
    /\ Added.percentage \in parse_float(RowTextLeftOf(cols.pct, shift))

\* on a row that starts a group the first cell is the name and column i is
\* read from cell i - 1 of the cells after it, the row's own cell i
StartingRowRead ==
    (CandidateAdded /\ StartsGroup) =>
        /\ FirstCellText # <<>> => current_constituency' = Str(FirstCellText)
        /\ ReadsCells(0)

\* C16 as stated: on a row that starts a group the first cell is taken as
\* the name and column i is read from cell i - 1 of the remaining cells; on
\* a row that starts none, column i is read from the row's own cell i.
C16_CellsRead ==
    [][/\ StartingRowRead
       /\ (CandidateAdded /\ ~StartsGroup) => ReadsCells(0)]_vars

\* C16, the rows that start a group
StartingRowsNotShifted == [][StartingRowRead]_vars

\* on a row that starts no group column i is read from the row's cell i - 1
OtherRowsShifted == [][(CandidateAdded /\ ~StartsGroup) => ReadsCells(1)]_vars

\* a row that keeps an empty cell in the place of the name has been read
\* after the first row of A: the candidate added has the text of the party
\* cell as its name and no votes
C16_Witness ==
    /\ pc = "constituency_rows"
    /\ row_i = 4
    /\ table.rows[2] = F_A
    /\ table.rows[3] = F_own
    /\ Len(constituencies) = 1
    /\ Len(constituencies[1].candidates) = 2
    /\ constituencies[1].candidates[2].candidate = <<"S">>
    /\ constituencies[1].candidates[2].votes = None

\* row r of the table is a data row that starts a group and names it
StartsNamedGroupAt(r) ==
    LET cells == table.rows[r].cells
    IN  /\ cells # <<>>
        /\ ~is_footer(table.rows[r], FooterWords)
        /\ clean_text(cells[1].text) # <<>>
        /\ \/ (cells[1].rowspan # NoAttr /\ cells[1].rowspan[1] # <<>>)
           \/ (cols.const = IntVal(0) /\ ~PurelyNumeric(clean_text(cells[1].text)))

\* the row, up to the one being read, that started the current group
\* (0: none)
GroupStartRow ==
    LET starts == {r \in 1..row_i : r <= Len(table.rows) /\ StartsNamedGroupAt(r)}
    IN  IF starts = {} THEN 0 ELSE CHOOSE r \in starts : \A q \in starts : q <= r

\* the cleaned text of row r's own cell at a resolved column
CellTextAt(r, col) ==
    LET cells == table.rows[r].cells
    IN  IF ~IsNone(col) /\ col.val < Len(cells)
        THEN clean_text(cells[col.val + 1].text) ELSE <<>>

\* a step that reads a data row and makes a new group
GroupMade == DataRowStep /\ Len(constituencies') = Len(constituencies) + 1

NewGroup == constituencies'[Len(constituencies')]

TheThree(entry) ==
    [electorate |-> entry.electorate, turnout |-> entry.turnout,
     turnout_pct |-> entry.turnout_pct]

\* the three fields of a new group are parsed from the cells of row r
ThreeFromRow(r) ==
    /\ NewGroup.electorate = parse_int(CellTextAt(r, cols.elect))
    /\ NewGroup.turnout = parse_int(CellTextAt(r, cols.turnout))
    /\ NewGroup.turnout_pct \in parse_float(CellTextAt(r, cols.turnout_pct))

\* the three fields of the groups that exist stay as they are, and the
\* returned entries have the three fields of their groups
ThreeKept ==
    /\ ConstRowStep =>
           \A k \in 1..Len(constituencies) :
               TheThree(constituencies'[k]) = TheThree(constituencies[k])
    /\ ConstReturned =>
           \A k \in 1..Len(ret.ok) : TheThree(ret.ok[k]) = TheThree(constituencies[k])

\* C17 as stated: the electorate, turnout and turnout_pct of every group are
\* parsed from the row that started the group, also when the group is made
\* by a later row because the starting row had no candidate; no other row
\* supplies or changes them.
C17_MetadataFromStart ==
    /\ [][GroupMade => (GroupStartRow # 0 /\ ThreeFromRow(GroupStartRow))]_vars
    /\ [][ThreeKept]_vars
    /\ [](ConstReturned =>
           \A k \in 1..Len(ret.ok) : TheThree(ret.ok[k]) = TheThree(constituencies[k]))

\* the three fields come from the row that makes the group when that row
\* starts it, are all None when another row makes it, and never change
MetadataFromMakingRow ==
    /\ [][GroupMade =>
             IF StartsGroup THEN ThreeFromRow(row_i)
             ELSE TheThree(NewGroup) =
                      [electorate |-> None, turnout |-> None, turnout_pct |-> None]]_vars
    /\ [][ThreeKept]_vars

\* the first row of A had electorate and turnout and no candidate, the next
\* row a candidate: the entry returned for A has the candidate and none of
\* the three
C17_Witness ==
    /\ ConstReturned
    /\ Len(table.rows) = 3
    /\ table.rows[2] = F_A_alone
    /\ table.rows[3] = F_y
    /\ Len(ret.ok) = 1
    /\ ret.ok[1].constituency = <<"A">>
    /\ ret.ok[1].candidates[1].candidate = <<"y">>
    /\ ret.ok[1].electorate = None
    /\ ret.ok[1].turnout = None
    /\ ret.ok[1].turnout_pct = None

\* the slots of the expanded header that say exactly % or percentage,
\* counted from 0, from left to right
PctSlots == {i \in 0..(Len(headers) - 1) : strip(headers[i + 1]) \in {K_pct, K_percentage}}

\* the k-th smallest member of a set of numbers, or None
Nth(S, k) ==
    LET at == {i \in S : Cardinality({j \in S : j < i}) = k - 1}
    IN  IF at = {} THEN None ELSE IntVal(CHOOSE i \in at : TRUE)

ConstColumnsResolved == pc = "constituency_rows"

\* with two or more such columns the first is the turnout percentage and
\* the second the candidate percentage
TwoPctColumns ==
    (ConstColumnsResolved /\ Cardinality(PctSlots) >= 2) =>
        /\ cols.turnout_pct = Nth(PctSlots, 1)
        /\ cols.pct = Nth(PctSlots, 2)

\* with one such column it is the candidate percentage, with none there is
\* no candidate percentage
OnePctColumn ==
    (ConstColumnsResolved /\ Cardinality(PctSlots) <= 1) => cols.pct = Nth(PctSlots, 1)

\* C18 as stated: of the columns saying exactly % or percentage the first is
\* the turnout percentage and the second the candidate percentage; a single
\* such column is the candidate percentage and not the turnout percentage,
\* and the turnout_pct of every group is then None.
C18_PctColumns ==
    /\ TwoPctColumns
    /\ OnePctColumn
    /\ (ConstColumnsResolved /\ Cardinality(PctSlots) = 1) =>
           /\ cols.turnout_pct = None
           /\ \A k \in 1..Len(constituencies) : constituencies[k].turnout_pct = None

\* C18 without the turnout percentage of a single column
PctColumnsByPosition == TwoPctColumns /\ OnePctColumn

\* under Constituency | Party | Candidate | Votes | % the first row of A has
\* been read: its percentage is also the group's turnout_pct
C18_Witness ==
    /\ pc = "constituency_rows"
    /\ Cardinality(PctSlots) = 1
    /\ cols.turnout_pct = IntVal(4)
    /\ cols.pct = IntVal(4)
    /\ row_i = 3
    /\ table.rows[2] = O_A
    /\ constituencies[1].turnout_pct = Float(5550)
    /\ constituencies[1].candidates[1].percentage = Float(5550)

---------------------------------------------------------------------------
(* One run, stated on the files written and the exit status *)

Wrote(file) == \E i \in 1..Len(written) : written[i].file = file

\* the page the run last received
FetchedPage == IF ~IsNone(soup) THEN soup ELSE scrape_soup

\* the page has the anchor and a wikitable with a th cell that says
\* constituency, and the first such table gives at least one group
HasConstituencyData(page) ==
    /\ "By_constituency" \in page.ids
    /\ LET tbls == page.tables
           Q    == {i \in 1..Len(tbls) :
                       /\ "wikitable" \in tbls[i].classes
                       /\ \E r \in 1..Len(tbls[i].rows) :
                              ThSays(tbls[i].rows[r], K_constituency)}
       IN  /\ Q # {}
           /\ \E r \in parse_by_constituency_table(
                           tbls[CHOOSE i \in Q : \A j \in Q : i <= j]) :
                  "ok" \in DOMAIN r /\ r.ok # <<>>

\* the constituency file comes after the summary file
SummaryWrittenFirst ==
    \A i \in 1..Len(written) :
        written[i].file = ConstituencyFile =>
            \E j \in 1..(i - 1) : written[j].file = SummaryFile

\* a page without the anchor gives no constituency table: nothing is
\* extracted from it and no constituency file is written
NoAnchorNoTable ==
    (~IsNone(soup) /\ "By_constituency" \notin soup.ids) =>
        /\ pc \notin {"parse_by_constituency_table", "constituency_rows",
                      "constituency_returned"}
        /\ ~Wrote(ConstituencyFile)

\* C8 as stated, for the runs that have written their summary: at the end
\* of the run the constituency file has been written if and only if the
\* fetched page has the anchor, a wikitable with a constituency header cell
\* and at least one extracted group; the file comes after the summary file;
\* a page without the anchor gives no constituency table.
C8_ConstituencyFileIff ==
    /\ (pc = "exited" /\ Wrote(SummaryFile)) =>
           (Wrote(ConstituencyFile) <=> HasConstituencyData(FetchedPage))
    /\ SummaryWrittenFirst
    /\ NoAnchorNoTable

\* the run ended without a constituency file although the one page it
\* received has the anchor, the table and groups
C8_Witness ==
    /\ pc = "exited"
    /\ Wrote(SummaryFile)
    /\ IsNone(soup)
    /\ HasConstituencyData(scrape_soup)
    /\ ~Wrote(ConstituencyFile)

\* a GET of the run raised, or was answered with 404 or another status that
\* is no success
FetchFailed ==
    \E i \in 1..Len(gets) :
        "exc" \in DOMAIN gets[i] \/ gets[i].status_code >= 400

\* the page of the summary was received and none of its tables qualifies
NoResultsTable ==
    /\ ~IsNone(scrape_soup)
    /\ \A i \in 1..Len(scrape_soup.tables) : ~QualifiesAsResults(scrape_soup.tables[i])

\* the summary table was found and its extraction gave no row, or failed
NoSummaryRows ==
    /\ ~IsNone(scrape_soup)
    /\ ~NoResultsTable
    /\ results = <<>>

FatalCondition == FetchFailed \/ NoResultsTable \/ NoSummaryRows

\* C9 as stated: a run that met a fatal condition (a failed connection, a
\* timeout, 404 or another status that is no success, no qualifying results
\* table, no parsed summary row) ends with status 1 and without a summary
\* file; every other run ends with status 0.
C9_ExitStatus ==
    pc = "exited" =>
        IF FatalCondition
        THEN exit_status = IntVal(1) /\ ~Wrote(SummaryFile)
        ELSE exit_status = IntVal(0)

\* the run ended with status 1 on a failed connection, its summary file
\* written
C9_Witness ==
    /\ pc = "exited"
    /\ exit_status = IntVal(1)
    /\ Wrote(SummaryFile)
    /\ gets[Len(gets)] = Raises("ConnectionError")

---------------------------------------------------------------------------
(* One run, stated on its GETs and its messages *)

\* C11 as stated: a run makes exactly one GET, and no document other than
\* the one that GET returned is searched for a table.
C11_SingleFetch ==
    /\ Len(gets) <= 1
    /\ pc = "exited" => Len(gets) = 1
    /\ IsNone(soup)

\* the run has made a second GET and holds the document it returned, to be
\* searched for the constituency table
C11_Witness ==
    /\ pc = "find_constituency_table"
    /\ Len(gets) = 2
    /\ ~IsNone(scrape_soup)
    /\ ~IsNone(soup)

\* the GET failed in one of the ways the run calls fatal
FatalGet(get) ==
    IF "exc" \in DOMAIN get THEN get.exc \in {"ConnectionError", "Timeout"}
    ELSE get.status_code >= 400

\* the summary table was found and its extraction returned no row
ZeroSummaryRows ==
    /\ Len(gets) = 1
    /\ ~IsNone(scrape_soup)
    /\ ~NoResultsTable
    /\ ret = Ok(<<>>)

LastMessage == log[Len(log)]

\* the message names the URL: in its own words, or through the text of the
\* ConnectionError, which names the host and the path requested
NamesUrl(message) ==
    message.url \/ message.text = "Could not connect to Wikipedia"

IsDiagnostic(message) ==
    /\ message.stream = "stderr"
    /\ message.text # "Traceback"
    /\ NamesUrl(message)

\* C12 as stated: a run in which a GET failed (connection, timeout, 404,
\* another status that is no success), or no summary table was found, or no
\* summary row was extracted, ends on a diagnostic that names the URL, and
\* makes no GET after the failure.
C12_DiagnosticAndHalt ==
    pc = "exited" =>
        /\ (\E i \in 1..Len(gets) : FatalGet(gets[i])) =>
               /\ IsDiagnostic(LastMessage)
               /\ FatalGet(gets[Len(gets)])
               /\ \A i \in 1..(Len(gets) - 1) : ~FatalGet(gets[i])
        /\ (NoResultsTable \/ ZeroSummaryRows) =>
               /\ IsDiagnostic(LastMessage)
               /\ Len(gets) = 1

\* the run ended on the timeout message, which names no URL
C12_Witness ==
    /\ pc = "exited"
    /\ gets = <<Raises("Timeout")>>
    /\ LastMessage.text = "Request timed out"
    /\ ~LastMessage.url

\* the page of the second GET has the anchor and a wikitable with a th cell
\* that says constituency, and the extraction of that table returned no
\* group
LocatedWithoutGroups ==
    /\ ~IsNone(soup)
    /\ "By_constituency" \in soup.ids
    /\ \E i \in 1..Len(soup.tables) :
           /\ "wikitable" \in soup.tables[i].classes
           /\ \E r \in 1..Len(soup.tables[i].rows) :
                  ThSays(soup.tables[i].rows[r], K_constituency)
    /\ ret = Ok(<<>>)

\* C13 as stated: a run whose constituency table was located and gave no
\* group ends with a message about it after the report of the summary, no
\* constituency file, its summary file, and status 0.
C13_NoGroupsReported ==
    (pc = "exited" /\ LocatedWithoutGroups) =>
        /\ LastMessage.text # "Results saved"
        /\ ~Wrote(ConstituencyFile)
        /\ Wrote(SummaryFile)
        /\ exit_status = IntVal(0)

\* C13 without the message: no constituency file, the summary file, status 0
NoGroupsNotFatal ==
    (pc = "exited" /\ LocatedWithoutGroups) =>
        /\ ~Wrote(ConstituencyFile)
        /\ Wrote(SummaryFile)
        /\ exit_status = IntVal(0)

\* the run ended with status 0 on a located table without groups, the
\* report of the summary file its last message
C13_Witness ==
    /\ pc = "exited"
    /\ LocatedWithoutGroups
    /\ exit_status = IntVal(0)
    /\ LastMessage = Stdout("Results saved")

---------------------------------------------------------------------------
(* The extractors, stated on what they return *)

ExtractorReturned == pc \in {"results_returned", "constituency_returned"}

\* the cells the row being read has
RowCells == table.rows[row_i].cells

\* the row being read has no cell at the column, counted from 0
Lacks(col) == IsNone(col) \/ col.val >= Len(RowCells)

\* a kept summary row gives empty text and None for the columns it lacks
SummaryShortRow ==
    SummaryRowKept =>
        LET record == results'[Len(results')]
        IN  /\ Lacks(cols.party) => record.party = <<>>
            /\ Lacks(cols.votes) => record.votes = None
            /\ Lacks(cols.pct) => record.percentage = None
            /\ Lacks(cols.seats) => record.seats = None
            /\ Lacks(cols.change) => record.change = <<>>

\* a candidate gets empty text and None for the columns its row lacks
ConstShortRow ==
    (CandidateAdded /\ StartsGroup) =>
        /\ Lacks(cols.candidate) => Added.candidate = <<>>
        /\ Lacks(cols.votes) => Added.votes = None
        /\ Lacks(cols.pct) => Added.percentage = None

\* a th cell of the table has a colspan that int() does not take
HasBadColspan ==
    \E r \in 1..Len(table.rows) :
        \E k \in 1..Len(table.rows[r].cells) :
            LET cell == table.rows[r].cells[k]
            IN  /\ cell.tag = "th"
                /\ cell.colspan # NoAttr
                /\ IsRaised(py_int(strip(cell.colspan[1])))

\* C23 as stated: either extractor returns a list, whatever the table, a
\* header colspan that is zero, negative or no integer included; a data row
\* shorter than the expanded header gives empty text and None for the
\* columns it lacks.
C23_NeverAborts ==
    /\ [](ExtractorReturned => "ok" \in DOMAIN ret)
    /\ [][SummaryShortRow /\ ConstShortRow]_vars

\* C23 for the tables whose colspans int() takes, zero and negative ones
\* included
AbortsOnlyOnBadColspan ==
    /\ []((ExtractorReturned /\ ~HasBadColspan) => "ok" \in DOMAIN ret)
    /\ [][SummaryShortRow /\ ConstShortRow]_vars

\* parse_results_table has raised ValueError on the header whose first cell
\* has colspan "2x"
C23_Witness ==
    /\ pc = "results_returned"
    /\ table.rows # <<>>
    /\ table.rows[1] = H_bad_span
    /\ ret = ValueError

---------------------------------------------------------------------------
(* render_general, stated on the records it is given *)

Rendered == pc = "rendered"

\* every bar width, in tenths of a percent, is between 0 and 100 percent
WidthsInRange(widths) == \A i \in 1..Len(widths) : widths[i] >= 0 /\ widths[i] <= 1000

\* a record has votes that are neither None nor 0
SomeVotes(records) ==
    \E i \in 1..Len(records) :
        "val" \in DOMAIN records[i].votes /\ records[i].votes.val > 0

\* C22 as stated: render_general returns for every list of records the
\* scraper writes, whether votes are None or 0 in some rows or in all, and
\* every bar width is between 0 and 100.
C22_RendersEveryList ==
    Rendered => ("ok" \in DOMAIN call.ret /\ WidthsInRange(call.ret.ok))

\* C22 for the lists in which some record has votes above 0, and the
\* ZeroDivisionError for the others
RendersListsWithVotes ==
    Rendered =>
        IF SomeVotes(call.arg)
        THEN /\ "ok" \in DOMAIN call.ret
             /\ Len(call.ret.ok) = Len(call.arg)
             /\ WidthsInRange(call.ret.ok)
        ELSE call.ret = ZeroDivisionError

\* the list of the one record of a party whose votes cell holds a dash has
\* been given to render_general, which raised
C22_Witness ==
    /\ Rendered
    /\ Len(call.arg) = 1
    /\ call.arg[1].party = T_Beta
    /\ call.arg[1].votes = None
    /\ call.ret = ZeroDivisionError

---------------------------------------------------------------------------
(* parse_by_constituency_table, the group a candidate is added to *)

\* row r of the table has cells and a first cell that starts a group and
\* bears a name, whatever else the row says
NamesGroupAt(r) ==
    LET cells == table.rows[r].cells
    IN  /\ cells # <<>>
        /\ clean_text(cells[1].text) # <<>>
        /\ \/ (cells[1].rowspan # NoAttr /\ cells[1].rowspan[1] # <<>>)
           \/ (cols.const = IntVal(0) /\ ~PurelyNumeric(clean_text(cells[1].text)))

\* the greatest member of a set of row numbers (0: none)
Latest(S) == IF S = {} THEN 0 ELSE CHOOSE r \in S : \A q \in S : q <= r

\* the nearest row at or above the row being read that names a group
NearestNaming == Latest({r \in 1..row_i : r <= Len(table.rows) /\ NamesGroupAt(r)})

\* the same, the rows the extractor skips as footer rows left out
NearestNamingRead ==
    Latest({r \in 1..row_i :
               /\ r <= Len(table.rows)
               /\ NamesGroupAt(r)
               /\ ~is_footer(table.rows[r], ConstFooter)})

\* the groups that the step has made or added to
ChangedGroups ==
    {k \in 1..Len(constituencies') :
        k > Len(constituencies) \/ constituencies'[k] # constituencies[k]}

\* a step that reads a row and changes the groups
RowContributes == ConstRowStep /\ constituencies' # constituencies

\* the step adds to one group, the one named by the first cell of row r
AddsToGroupOf(r) ==
    /\ r # 0
    /\ Cardinality(ChangedGroups) = 1
    /\ \A k \in ChangedGroups :
           constituencies'[k].constituency = clean_text(table.rows[r].cells[1].text)

\* C21 as stated: a candidate is added to one group only, the group named
\* by the nearest row at or above its own that starts a group and names it,
\* also when that row is skipped as a footer row or for having no candidate
\* and no votes; a row above the first such row adds no candidate; no two
\* groups have one name.
C21_NearestStartingRow ==
    /\ [][RowContributes => AddsToGroupOf(NearestNaming)]_vars
    /\ [](NamesDiffer(constituencies))

\* C21 with the naming rows that are skipped as footer rows left out
NearestStartingRowRead ==
    /\ [][RowContributes => AddsToGroupOf(NearestNamingRead)]_vars
    /\ [](NamesDiffer(constituencies))

\* the first row of B, skipped for the word in its electorate cell, came
\* after the first row of A; the candidate of the row after it is in A
C21_Witness ==
    /\ pc = "constituency_rows"
    /\ row_i = 5
    /\ table.rows[2] = F_A
    /\ table.rows[3] = F_B
    /\ table.rows[4] = F_y
    /\ Len(constituencies) = 1
    /\ constituencies[1].constituency = <<"A">>
    /\ Len(constituencies[1].candidates) = 2
    /\ constituencies[1].candidates[2].candidate = <<"y">>

=============================================================================
